---- MODULE Spec2Model ----
(***************************************************************************)
(* Model of the detection / actuation core of server_improve_fixed.py:     *)
(* ThreadSafeData, GPIOController, AudioProcessor.record_audio,            *)
(* ModelHandler.predict, SnoreDetectionSystem (record_and_predict,         *)
(* _execute_snoring_response, start/stop_auto_detection, the loop) and the *)
(* /api/record handler.                                                    *)
(*                                                                         *)
(* Threads are interleaved at the granularity of their accesses to shared  *)
(* state (status dictionary, locks, the stop Event, the thread handle,     *)
(* the GPIO lines).  A poll of the stop Event and the sleep(1) that        *)
(* follows it form one step: the sleep touches no shared state.            *)
(* Class names that are not ASCII in the source are transliterated:        *)
(* "kron" is the Thai label for snoring, "mai_kron" the Thai label for     *)
(* not snoring.                                                            *)
(***************************************************************************)
EXTENDS Integers, Sequences, FiniteSets, TLC

(* ---------------- program constants (SystemConfig) ---------------- *)
MAX_DETECTION_HISTORY == 50
MAX_ACTIVITY_LOG == 200
THRESHOLD_PERCENT == 85
PROGRESS_EVERY == 60
RETRY_WAIT == 5
DEFAULT_DELAY == 5
MIN_DELAY == 1
MAX_DELAY == 60
LEGACY_FEATURES == 40

(* ---------------- bounds of the model ---------------- *)
\* Stage durations in polling ticks (the source has 50, 60 and 20 seconds).
PUMP1_DURATION == 2
WAIT_BETWEEN_PUMPS == 2
PUMP2_DURATION == 2
\* Polling ticks the model counts for one minute of detection delay (60 s).
SECONDS_PER_MINUTE == 2
\* Hardware errors (lgpio raising) and exceptions injected in one behaviour.
MaxFaults == 1
\* Calls of start_auto_detection / stop_auto_detection issued per caller.
MaxCalls == 1
\* Detection cycles the supervisory loop threads run in one behaviour.
MaxCycles == 1
\* appends beyond the capacity of a buffer
MaxOverflow == 2
\* set_detection_delay calls in one behaviour
MaxDelayCalls == 3
\* longest declared input shape
MaxRank == 4
\* Sleeps of the manual pillow operations in ticks: the deflation that
\* adjust_pillow starts with (20 s), one level of inflation (the source has
\* 15, 30 and 50 s for the levels 1, 2 and 3), deflate_pillow's hold (30 s).
ADJUST_DEFLATE == 1
INFLATE_STEP == 1
DEFLATE_DURATION == 2
\* The loop's sleep after an unexpected exception in ticks (the source has 10 s).
ERROR_BACKOFF == 2

NONE == "none"
Requests == {"req1", "req2"}
Loops == {"loop1", "loop2"}
CycleTasks == Requests \cup Loops
Seqs == {"seq1", "seq2"}
Callers == {"call1", "call2"}
Pins == {1, 2}

SNORING_NAMES == {"kron", "snoring", "Snoring", "SNORING"}
Labels == {"kron", "Snoring", "mai_kron", "Unknown"}
Confidences == {80, 85, 90, 99}

VARIABLES
    status,             \* ThreadSafeData._system_status
    detection_history,  \* ThreadSafeData._detection_history
    activity_log,       \* ThreadSafeData._activity_log (newest entry kept)
    gpio_initialized,   \* GPIOController.gpio_initialized
    pump, valve,        \* levels of the pump relay and solenoid valve lines
    faults_left,        \* hardware errors still to be injected
    recording_lock,     \* AudioProcessor._recording_lock (owner or NONE)
    prediction_lock,    \* ModelHandler._prediction_lock (owner or NONE)
    stop_event,         \* SnoreDetectionSystem._auto_detection_stop_event
    auto_thread,        \* SnoreDetectionSystem._auto_detection_thread
    pc,                 \* position of every request / loop thread
    result,             \* local variable result of record_and_predict
    already_active,     \* local variable already_active of record_and_predict
    loop_delay,         \* status['detection_delay'] of the loop's status copy
    wait_left,          \* seconds the loop thread still has to wait
    cycles_left,        \* detection cycles the loop threads may still start
    spc,                \* position of every response-sequence thread
    si,                 \* loop index i of a response-sequence thread
    cpc,                \* position of every start/stop caller
    calls,              \* calls a caller has issued
    outcomes,           \* classification results the model can return in this behaviour
    cancel_note,        \* history: was the Event set during this sequence's Stage 1 hold
    records_added,      \* history: detection records appended so far
    entries_added,      \* history: activity-log entries appended so far
    delay_calls,        \* set_detection_delay calls made so far
    delay_ret,          \* argument and return value of the last set_detection_delay call
    input_shape,        \* model.input_shape as _detect_model_type reads it
    model_type,         \* ModelHandler.model_type
    gpio_lock,          \* GPIOController._lock (owner or NONE)
    epc,                \* position of every thread inside control_pump
    ereq,               \* arguments of its control_pump call
    eret,               \* what its last control_pump call returned
    chip_open,          \* is the chip handle GPIOController.h open
    kpc,                \* position of the main thread on the shutdown path
    shutdowns,          \* runs of SnoreDetectionSystem.cleanup completed
    ppc,                \* position of the adjust_task / deflate_task thread
    preq,               \* the manual operation it runs and its level argument
    pret,               \* what adjust_pillow / deflate_pillow returned
    phold,              \* seconds of its time.sleep still to pass
    stop_requested,     \* history: has a stop_auto_detection call cleared the enabled flag
    apc,                \* position of a predict call between extraction and inference
    features,           \* local variable features of predict
    model_input,        \* the array handed to self.model.predict
    store_lock,         \* ThreadSafeData._lock (owner or NONE)
    upc,                \* position of every thread inside update_status
    pending,            \* the fields of its kwargs that dict.update has still to store
    committed,          \* history: the status when the store lock was last released
    rpc,                \* position of the GET /api/status handler
    snap,               \* the dict its local variable status refers to
    snap_ref,           \* which object that is: the stored dict or a copy
    lscript,            \* the lock operations a thread has still to do in its call
    lwant               \* the lock a thread is blocked on (or NONE)

vars == <<status, detection_history, activity_log, gpio_initialized, pump, valve,
          faults_left, recording_lock, prediction_lock, stop_event, auto_thread,
          pc, result, already_active, loop_delay, wait_left, cycles_left, spc, si, cpc, calls, cancel_note, outcomes,
          records_added, entries_added, delay_calls, delay_ret, input_shape, model_type,
          gpio_lock, epc, ereq, eret, chip_open, kpc, shutdowns,
          ppc, preq, pret, phold, stop_requested,
          apc, features, model_input,
          store_lock, upc, pending, committed, rpc, snap, snap_ref, lscript, lwant>>

storeVars == <<status, detection_history, activity_log>>
\* state of the components that the thread-level actions never touch
ctlVars == <<gpio_lock, epc, ereq, eret, chip_open, kpc, shutdowns>>
unitVars == <<records_added, entries_added, delay_calls, delay_ret, input_shape, model_type,
              ctlVars>>
restVars == <<outcomes, unitVars>>
gpioVars == <<gpio_initialized, pump, valve, faults_left, restVars>>
cycleVars == <<pc, result, already_active, loop_delay, wait_left, cycles_left>>
seqVars == <<spc, si, cancel_note>>
\* the start/stop callers, and the thread of a manual pillow operation
callerVars == <<cpc, calls, stop_requested>>
\* the arrays of a predict call
arrayVars == <<apc, features, model_input>>
\* the store lock, the update_status calls and the reader of the status
lockedVars == <<store_lock, upc, pending, committed, rpc, snap, snap_ref>>
\* the threads followed lock by lock
lockerVars == <<lscript, lwant>>
probeVars == <<arrayVars, lockedVars, lockerVars>>
\* everything but the status and the variables above
baseFrame == <<detection_history, activity_log, gpio_initialized, pump, valve, faults_left,
               outcomes, records_added, entries_added, delay_calls, delay_ret, input_shape,
               model_type, ctlVars, recording_lock, prediction_lock, stop_event,
               auto_thread, cycleVars, seqVars, callerVars, ppc, preq, pret, phold>>
\* the same without the three locks of the components
lockFrame == <<status, detection_history, activity_log, gpio_initialized, pump, valve,
               faults_left, outcomes, records_added, entries_added, delay_calls, delay_ret,
               input_shape, model_type, epc, ereq, eret, chip_open, kpc, shutdowns,
               stop_event, auto_thread, cycleVars, seqVars, callerVars, ppc, preq, pret, phold>>
manualVars == <<ppc, preq, pret, phold, probeVars>>
callVars == <<callerVars, manualVars>>

(* ---------------- ThreadSafeData ---------------- *)
InitialStatus ==
    [is_recording |-> FALSE, pump_status |-> FALSE, auto_detect_enabled |-> FALSE,
     detection_delay |-> DEFAULT_DELAY, model_loaded |-> TRUE, gpio_ready |-> FALSE,
     snoring_response_active |-> FALSE]

\* a variant that evicts the newest record when over capacity
add_detection_record_evict_newest(history, record) ==
    IF Len(history) >= MAX_DETECTION_HISTORY THEN history ELSE Append(history, record)

\* add_detection_record: append, then evict the oldest when over capacity
add_detection_record(history, record) ==
    LET appended == Append(history, record)
    IN  IF Len(appended) > MAX_DETECTION_HISTORY THEN Tail(appended) ELSE appended

\* add_log_entry: append, then evict the oldest when over capacity
add_log_entry(log, message) ==
    LET appended == Append(log, message)
    IN  IF Len(appended) > MAX_ACTIVITY_LOG THEN Tail(appended) ELSE appended

\* The concurrent specifications keep the newest entry of the log only: the
\* log is never read by the control flow.
Newest(log) == IF log = <<>> THEN log ELSE <<log[Len(log)]>>

RECURSIVE LogAll(_, _)
LogAll(log, messages) ==
    IF messages = <<>> THEN log
    ELSE LogAll(Newest(add_log_entry(log, Head(messages))), Tail(messages))

LastLog == IF activity_log = <<>> THEN NONE ELSE activity_log[Len(activity_log)]

\* update_status(**kwargs): merge the given fields under the store lock
update_status(st, field, value) == [st EXCEPT ![field] = value]

(* ---------------- GPIOController.control_pump ---------------- *)
\* fault = 0: no hardware error; fault = k: the k-th gpio_write raises.
FaultChoices == IF faults_left > 0 THEN {0, 1, 2} ELSE {0}

\* The lines after one control_pump call: for ON the valve is written first,
\* then the pump; for OFF the pump first, then the valve.  A write that
\* raises leaves its line and the later ones as they were.
control_pump_lines(ch, action, fault) ==
    IF ~gpio_initialized \/ ch \notin Pins
    THEN [pump |-> pump, valve |-> valve, success |-> FALSE, logged |-> FALSE]
    ELSE IF action = "ON"
    THEN [valve   |-> IF fault = 1 THEN valve ELSE [valve EXCEPT ![ch] = 1],
          pump    |-> IF fault \in {1, 2} THEN pump ELSE [pump EXCEPT ![ch] = 1],
          success |-> fault = 0, logged |-> TRUE]
    ELSE [pump    |-> IF fault = 1 THEN pump ELSE [pump EXCEPT ![ch] = 0],
          valve   |-> IF fault \in {1, 2} THEN valve ELSE [valve EXCEPT ![ch] = 0],
          success |-> fault = 0, logged |-> TRUE]

\* status after the call: pump_status follows pump 1 on a successful call
control_pump_status(st, ch, action, fault) ==
    IF gpio_initialized /\ ch = 1 /\ fault = 0
    THEN update_status(st, "pump_status", action = "ON")
    ELSE st

control_pump_log(ch, action, fault) ==
    IF ~gpio_initialized \/ ch \notin Pins THEN <<>>
    ELSE IF fault # 0 THEN <<"pump_control_error">>
    ELSE IF action = "ON" THEN <<"pump_on">> ELSE <<"pump_off">>

\* One whole control_pump(ch, action) call, serialized by GPIOController._lock.
\* st is the status the calling step hands on; before, afterOk and afterFail
\* are the log entries the caller writes around the call.
Engage(ch, action, fault, st, before, afterOk, afterFail) ==
    LET r == control_pump_lines(ch, action, fault)
    IN  /\ pump' = r.pump
        /\ valve' = r.valve
        /\ faults_left' = IF fault = 0 THEN faults_left ELSE faults_left - 1
        /\ status' = control_pump_status(st, ch, action, fault)
        /\ activity_log' = LogAll(activity_log,
                                  before \o control_pump_log(ch, action, fault)
                                         \o (IF r.success THEN afterOk ELSE afterFail))
        /\ UNCHANGED <<gpio_initialized, restVars>>

EngageSucceeds(ch, fault) == gpio_initialized /\ ch \in Pins /\ fault = 0

ChannelOff(ch) == pump[ch] = 0 /\ valve[ch] = 0

(* ---------------- threads ---------------- *)
Results == [class_name : Labels, confidence : Confidences]
\* predict returned None / no result yet
NO_RESULT == [class_name |-> NONE, confidence |-> 0]
IsRequest(t) == t \in Requests
IsLoop(t) == t \in Loops

\* Thread.is_alive() of a loop thread
is_alive(l) == pc[l] \notin {"unborn", "dead"}

\* a response-sequence thread that has been started and has not returned
SeqRunning(s) == spc[s] # NONE

Log(messages) == activity_log' = LogAll(activity_log, messages)

(* ---------------- /api/record ---------------- *)
\* api_record: reject when the status shows a recording or a response
\* sequence, else start record_task in a background thread
api_record(t) ==
    /\ IsRequest(t)
    /\ pc[t] = "idle"
    /\ pc' = [pc EXCEPT ![t] =
                IF status.is_recording \/ status.snoring_response_active
                THEN "rejected" ELSE "rp_start"]
    /\ UNCHANGED <<storeVars, gpioVars, recording_lock, prediction_lock, stop_event,
                   auto_thread, result, already_active, loop_delay, wait_left, cycles_left,
                   seqVars, callVars>>

(* ---------------- AudioProcessor.record_audio ---------------- *)
\* mutant: the capture section entered without taking the lock
record_audio_acquire_unlocked(t) ==
    /\ pc[t] = "rp_start"
    /\ recording_lock' = t
    /\ pc' = [pc EXCEPT ![t] = "rec_locked"]
    /\ UNCHANGED <<storeVars, gpioVars, prediction_lock, stop_event, auto_thread,
                   result, already_active, loop_delay, wait_left, cycles_left, seqVars, callVars>>

\* with self._recording_lock: blocks until the lock is free
record_audio_acquire(t) ==
    /\ pc[t] = "rp_start"
    /\ recording_lock = NONE
    /\ recording_lock' = t
    /\ pc' = [pc EXCEPT ![t] = "rec_locked"]
    /\ UNCHANGED <<storeVars, gpioVars, prediction_lock, stop_event, auto_thread,
                   result, already_active, loop_delay, wait_left, cycles_left, seqVars, callVars>>

\* update_status(is_recording=True) and the "Recording audio" entry
record_audio_begin(t) ==
    /\ pc[t] = "rec_locked"
    /\ status' = update_status(status, "is_recording", TRUE)
    /\ Log(<<"recording_audio">>)
    /\ pc' = [pc EXCEPT ![t] = "rec_stream"]
    /\ UNCHANGED <<detection_history, gpioVars, recording_lock, prediction_lock, stop_event,
                   auto_thread, result, already_active, loop_delay, wait_left, cycles_left,
                   seqVars, callVars>>

\* the InputStream block and the save: frames were recorded and written
\* (ok) or not (no frames, device error: the except branch logs and raises)
record_audio_stream(t) ==
    /\ pc[t] = "rec_stream"
    /\ \E ok \in BOOLEAN :
         /\ Log(IF ok THEN <<"audio_saved">> ELSE <<"recording_failed">>)
         /\ pc' = [pc EXCEPT ![t] = IF ok THEN "rec_finally_ok" ELSE "rec_finally_err"]
    /\ UNCHANGED <<status, detection_history, gpioVars, recording_lock, prediction_lock,
                   stop_event, auto_thread, result, already_active, loop_delay, wait_left,
                   cycles_left, seqVars, callVars>>

\* a variant that clears the flag on the successful path only
record_audio_finally_on_success(t) ==
    /\ pc[t] \in {"rec_finally_ok", "rec_finally_err"}
    /\ status' = IF pc[t] = "rec_finally_ok"
                 THEN update_status(status, "is_recording", FALSE) ELSE status
    /\ pc' = [pc EXCEPT ![t] = IF pc[t] = "rec_finally_ok" THEN "rec_release_ok"
                                                           ELSE "rec_release_err"]
    /\ UNCHANGED <<detection_history, activity_log, gpioVars, recording_lock, prediction_lock,
                   stop_event, auto_thread, result, already_active, loop_delay, wait_left,
                   cycles_left, seqVars, callVars>>

\* finally: update_status(is_recording=False)
record_audio_finally(t) ==
    /\ pc[t] \in {"rec_finally_ok", "rec_finally_err"}
    /\ status' = update_status(status, "is_recording", FALSE)
    /\ pc' = [pc EXCEPT ![t] = IF pc[t] = "rec_finally_ok" THEN "rec_release_ok"
                                                           ELSE "rec_release_err"]
    /\ UNCHANGED <<detection_history, activity_log, gpioVars, recording_lock, prediction_lock,
                   stop_event, auto_thread, result, already_active, loop_delay, wait_left,
                   cycles_left, seqVars, callVars>>

\* where record_and_predict returns to: a request thread ends, a loop thread
\* goes on to compute its wait
Returned(t) == IF IsLoop(t) THEN "loop_after" ELSE "done"

\* leaving the with block releases the lock; record_and_predict then logs
\* the file (ok) or catches AudioProcessingError, logs and returns None
record_audio_release(t) ==
    /\ pc[t] \in {"rec_release_ok", "rec_release_err"}
    /\ recording_lock' = NONE
    /\ Log(IF pc[t] = "rec_release_ok" THEN <<"audio_file_created">>
                                       ELSE <<"record_and_predict_failed">>)
    /\ pc' = [pc EXCEPT ![t] = IF pc[t] = "rec_release_ok" THEN "rp_predict" ELSE Returned(t)]
    /\ result' = [result EXCEPT ![t] = NO_RESULT]
    /\ UNCHANGED <<status, detection_history, gpioVars, prediction_lock, stop_event,
                   auto_thread, already_active, loop_delay, wait_left, cycles_left, seqVars, callVars>>

(* ---------------- ModelHandler.predict ---------------- *)
\* a variant that starts the inference without the lock
predict_acquire_unlocked(t) ==
    /\ pc[t] = "rp_predict"
    /\ prediction_lock' = t
    /\ pc' = [pc EXCEPT ![t] = "pred_run"]
    /\ UNCHANGED <<storeVars, gpioVars, recording_lock, stop_event, auto_thread,
                   result, already_active, loop_delay, wait_left, cycles_left, seqVars, callVars>>

\* with self._prediction_lock
predict_acquire(t) ==
    /\ pc[t] = "rp_predict"
    /\ prediction_lock = NONE
    /\ prediction_lock' = t
    /\ pc' = [pc EXCEPT ![t] = "pred_run"]
    /\ UNCHANGED <<storeVars, gpioVars, recording_lock, stop_event, auto_thread,
                   result, already_active, loop_delay, wait_left, cycles_left, seqVars, callVars>>

\* a variant in which a failed prediction goes on to the history as well
predict_run_failure_recorded(t) ==
    /\ pc[t] = "pred_run"
    /\ prediction_lock' = NONE
    /\ \E r \in outcomes \cup {NO_RESULT} :
         /\ result' = [result EXCEPT ![t] = r]
         /\ Log(IF r = NO_RESULT THEN <<"prediction_failed_exc", "prediction_failed">>
                            ELSE <<"prediction", "debug_threshold">>)
         /\ pc' = [pc EXCEPT ![t] = "rp_record"]
    /\ UNCHANGED <<status, detection_history, gpioVars, recording_lock, stop_event,
                   auto_thread, already_active, loop_delay, wait_left, cycles_left, seqVars, callVars>>

\* feature extraction and the model call: a result, or None after an
\* exception (missing file, empty audio); the lock is released on the way
\* out, and record_and_predict logs the prediction or "Prediction failed"
predict_run(t) ==
    /\ pc[t] = "pred_run"
    /\ prediction_lock' = NONE
    /\ \E r \in outcomes \cup {NO_RESULT} :
         /\ result' = [result EXCEPT ![t] = r]
         /\ Log(IF r = NO_RESULT THEN <<"prediction_failed_exc", "prediction_failed">>
                            ELSE <<"prediction", "debug_threshold">>)
         /\ pc' = [pc EXCEPT ![t] = IF r = NO_RESULT THEN Returned(t) ELSE "rp_record"]
    /\ UNCHANGED <<status, detection_history, gpioVars, recording_lock, stop_event,
                   auto_thread, already_active, loop_delay, wait_left, cycles_left, seqVars, callVars>>

(* ---------------- SnoreDetectionSystem.record_and_predict ---------------- *)
is_snoring(r) == r.class_name \in SNORING_NAMES
\* mutant: the threshold itself counts as above
confidence_at_least_threshold(r) == r.confidence >= THRESHOLD_PERCENT
confidence_above_threshold(r) == r.confidence > THRESHOLD_PERCENT
Qualifies(r) == is_snoring(r) /\ confidence_above_threshold(r)

\* data_store.add_detection_record(history_entry)
rp_record(t) ==
    /\ pc[t] = "rp_record"
    /\ detection_history' = add_detection_record(detection_history,
                                [result |-> result[t], audio_file |-> t])
    /\ pc' = [pc EXCEPT ![t] = "rp_decide"]
    /\ UNCHANGED <<status, activity_log, gpioVars, recording_lock, prediction_lock, stop_event,
                   auto_thread, result, already_active, loop_delay, wait_left, cycles_left,
                   seqVars, callVars>>

\* the decision: on a qualifying result read the status (get_status) into
\* already_active; otherwise log why nothing is done
rp_decide(t) ==
    /\ pc[t] = "rp_decide"
    /\ IF Qualifies(result[t])
       THEN /\ already_active' = [already_active EXCEPT ![t] = status.snoring_response_active]
            /\ Log(<<"debug_decision", "debug_already_active">>)
            /\ pc' = [pc EXCEPT ![t] = "rp_act"]
       ELSE /\ Log(<<"debug_decision",
                     IF is_snoring(result[t]) THEN "confidence_too_low" ELSE "no_snoring">>)
            /\ pc' = [pc EXCEPT ![t] = "rp_cleanup"]
            /\ UNCHANGED already_active
    /\ UNCHANGED <<status, detection_history, gpioVars, recording_lock, prediction_lock,
                   stop_event, auto_thread, result, loop_delay, wait_left, cycles_left,
                   seqVars, callVars>>

FreeSeqs == {s \in Seqs : spc[s] = NONE}

\* the thread a Thread(target=_execute_snoring_response).start() creates
SpawnSeq(s) == /\ spc' = [spc EXCEPT ![s] = "spawned"]
               /\ si' = [si EXCEPT ![s] = 0]
               /\ cancel_note' = [cancel_note EXCEPT ![s] = "no"]

\* mutant: the response thread is started whatever already_active says
rp_act_always(t) ==
    /\ pc[t] = "rp_act"
    /\ FreeSeqs # {}
    /\ SpawnSeq(CHOOSE s \in FreeSeqs : TRUE)
    /\ Log(<<"triggering_response", "response_thread_started">>)
    /\ pc' = [pc EXCEPT ![t] = "rp_cleanup"]
    /\ UNCHANGED <<status, detection_history, gpioVars, recording_lock, prediction_lock,
                   stop_event, auto_thread, result, already_active, loop_delay, wait_left,
                   cycles_left, callVars>>

\* if already_active: log the skip; else start the response thread
rp_act(t) ==
    /\ pc[t] = "rp_act"
    /\ IF already_active[t]
       THEN /\ Log(<<"skipped_already_in_progress">>)
            /\ UNCHANGED seqVars
       ELSE /\ FreeSeqs # {}
            /\ SpawnSeq(CHOOSE s \in FreeSeqs : TRUE)
            /\ Log(<<"triggering_response", "response_thread_started">>)
    /\ pc' = [pc EXCEPT ![t] = "rp_cleanup"]
    /\ UNCHANGED <<status, detection_history, gpioVars, recording_lock, prediction_lock,
                   stop_event, auto_thread, result, already_active, loop_delay, wait_left,
                   cycles_left, callVars>>

\* cleanup_old_files() works on the recordings directory only; return result
rp_cleanup(t) ==
    /\ pc[t] = "rp_cleanup"
    /\ pc' = [pc EXCEPT ![t] = Returned(t)]
    /\ already_active' = [already_active EXCEPT ![t] = FALSE]
    /\ result' = [result EXCEPT ![t] = IF IsLoop(t) THEN result[t] ELSE NO_RESULT]
    /\ UNCHANGED <<storeVars, gpioVars, recording_lock, prediction_lock, stop_event,
                   auto_thread, loop_delay, wait_left, cycles_left, seqVars, callVars>>

(* ---------------- SnoreDetectionSystem._execute_snoring_response ---------------- *)
otherVarsSeq == <<detection_history, recording_lock, prediction_lock,
                  stop_event, auto_thread, cycleVars, callVars>>

\* where the for loop over range(duration) goes: into the hold, or past it
\* when the duration is 0
Hold(duration, hold, after) == IF duration > 0 THEN hold ELSE after

\* update_status(snoring_response_active=True), the first log entries
SeqBegin(s) ==
    /\ spc[s] = "spawned"
    /\ status' = update_status(status, "snoring_response_active", TRUE)
    /\ Log(<<"starting_response", "step1_activating">>)
    /\ spc' = [spc EXCEPT ![s] = "s1_on"]
    /\ UNCHANGED <<detection_history, gpioVars, recording_lock, prediction_lock, stop_event,
                   auto_thread, cycleVars, si, cancel_note, callVars>>

\* pump1_result = control_pump(1, "ON"); on failure log "Step 1 failed" and return
SeqStage1On(s) ==
    /\ spc[s] = "s1_on"
    /\ \E fault \in FaultChoices :
         /\ Engage(1, "ON", fault, status, <<>>, <<>>, <<"step1_failed">>)
         /\ spc' = [spc EXCEPT ![s] =
                      IF EngageSucceeds(1, fault)
                      THEN Hold(PUMP1_DURATION, "s1_hold", "s1_off") ELSE "finally_fail"]
    /\ si' = [si EXCEPT ![s] = 0]
    /\ UNCHANGED <<cancel_note, otherVarsSeq>>

\* one iteration of the Stage 1 hold: poll the Event, then sleep(1)
SeqStage1Tick(s) ==
    /\ spc[s] = "s1_hold"
    /\ IF stop_event
       THEN /\ Log(<<"interrupted_pump1">>)
            /\ spc' = [spc EXCEPT ![s] = "s1_cancel"]
            /\ UNCHANGED <<si, cancel_note>>
       ELSE /\ si' = [si EXCEPT ![s] = IF si[s] + 1 < PUMP1_DURATION THEN si[s] + 1 ELSE 0]
            /\ spc' = [spc EXCEPT ![s] = IF si[s] + 1 < PUMP1_DURATION THEN "s1_hold" ELSE "s1_off"]
            /\ cancel_note' = [cancel_note EXCEPT ![s] =
                                 IF cancel_note[s] = "signalled" THEN "missed" ELSE cancel_note[s]]
            /\ UNCHANGED activity_log
    /\ UNCHANGED <<status, detection_history, gpioVars, recording_lock, prediction_lock,
                   stop_event, auto_thread, cycleVars, callVars>>

\* mutant: the interrupted thread ends without running the finally clause
SeqStage1Cancel_no_finally(s) ==
    /\ spc[s] = "s1_cancel"
    /\ \E fault \in FaultChoices : Engage(1, "OFF", fault, status, <<>>, <<>>, <<>>)
    /\ spc' = [spc EXCEPT ![s] = NONE]
    /\ UNCHANGED <<si, cancel_note, otherVarsSeq>>

\* interrupted: control_pump(1, "OFF"); return
SeqStage1Cancel(s) ==
    /\ spc[s] = "s1_cancel"
    /\ \E fault \in FaultChoices : Engage(1, "OFF", fault, status, <<>>, <<>>, <<>>)
    /\ spc' = [spc EXCEPT ![s] = "finally_cancel"]
    /\ UNCHANGED <<si, cancel_note, otherVarsSeq>>

\* control_pump(1, "OFF") after the hold (its result is not looked at), the
\* "Step 1 completed" and "Step 2: Waiting" entries
SeqStage1Off(s) ==
    /\ spc[s] = "s1_off"
    /\ \E fault \in FaultChoices :
         Engage(1, "OFF", fault, status, <<>>, <<"step1_completed", "step2_waiting">>,
                <<"step1_completed", "step2_waiting">>)
    /\ spc' = [spc EXCEPT ![s] = Hold(WAIT_BETWEEN_PUMPS, "wait", "s2_on")]
    /\ UNCHANGED <<si, cancel_note, otherVarsSeq>>

\* one iteration of the waiting period: poll, sleep(1), progress entry
\* every 60 iterations; after the last one the "Step 3" entry
SeqWaitTick(s) ==
    /\ spc[s] = "wait"
    /\ IF stop_event
       THEN /\ Log(<<"interrupted_waiting">>)
            /\ spc' = [spc EXCEPT ![s] = "finally_cancel"]
            /\ UNCHANGED <<si, cancel_note>>
       ELSE /\ si' = [si EXCEPT ![s] = IF si[s] + 1 < WAIT_BETWEEN_PUMPS THEN si[s] + 1 ELSE 0]
            /\ spc' = [spc EXCEPT ![s] = IF si[s] + 1 < WAIT_BETWEEN_PUMPS THEN "wait" ELSE "s2_on"]
            /\ Log((IF (si[s] + 1) % PROGRESS_EVERY = 0 THEN <<"waiting_progress">> ELSE <<>>)
                   \o (IF si[s] + 1 < WAIT_BETWEEN_PUMPS THEN <<>> ELSE <<"step3_activating">>))
            /\ cancel_note' = [cancel_note EXCEPT ![s] =
                                 IF cancel_note[s] = "signalled" THEN "missed" ELSE cancel_note[s]]
    /\ UNCHANGED <<status, detection_history, gpioVars, recording_lock, prediction_lock,
                   stop_event, auto_thread, cycleVars, callVars>>

\* pump2_result = control_pump(2, "ON"); on failure log "Step 3 failed" and
\* fall through to the "completed successfully" entry
SeqStage2On(s) ==
    /\ spc[s] = "s2_on"
    /\ \E fault \in FaultChoices :
         /\ Engage(2, "ON", fault, status, <<>>, <<>>, <<"step3_failed", "sequence_completed">>)
         /\ spc' = [spc EXCEPT ![s] =
                      IF EngageSucceeds(2, fault)
                      THEN Hold(PUMP2_DURATION, "s2_hold", "s2_off") ELSE "finally_fail"]
         /\ cancel_note' = [cancel_note EXCEPT ![s] =
                              IF cancel_note[s] = "signalled" THEN "missed" ELSE cancel_note[s]]
    /\ UNCHANGED <<si, otherVarsSeq>>

\* one iteration of the Stage 2 hold
SeqStage2Tick(s) ==
    /\ spc[s] = "s2_hold"
    /\ IF stop_event
       THEN /\ Log(<<"interrupted_pump2">>)
            /\ spc' = [spc EXCEPT ![s] = "s2_cancel"]
            /\ UNCHANGED si
       ELSE /\ si' = [si EXCEPT ![s] = IF si[s] + 1 < PUMP2_DURATION THEN si[s] + 1 ELSE 0]
            /\ spc' = [spc EXCEPT ![s] = IF si[s] + 1 < PUMP2_DURATION THEN "s2_hold" ELSE "s2_off"]
            /\ UNCHANGED activity_log
    /\ UNCHANGED <<status, detection_history, gpioVars, recording_lock, prediction_lock,
                   stop_event, auto_thread, cycleVars, cancel_note, callVars>>

\* interrupted: control_pump(2, "OFF"); return
SeqStage2Cancel(s) ==
    /\ spc[s] = "s2_cancel"
    /\ \E fault \in FaultChoices : Engage(2, "OFF", fault, status, <<>>, <<>>, <<>>)
    /\ spc' = [spc EXCEPT ![s] = "finally_cancel"]
    /\ UNCHANGED <<si, cancel_note, otherVarsSeq>>

\* control_pump(2, "OFF") after the hold, the closing log entries
SeqStage2Off(s) ==
    /\ spc[s] = "s2_off"
    /\ \E fault \in FaultChoices :
         Engage(2, "OFF", fault, status, <<>>, <<"step3_completed", "sequence_completed">>,
                <<"step3_completed", "sequence_completed">>)
    /\ spc' = [spc EXCEPT ![s] = "finally_done"]
    /\ UNCHANGED <<si, cancel_note, otherVarsSeq>>

\* an exception raised inside the try block while the thread holds or waits:
\* the except branch logs it
SeqException(s) ==
    /\ spc[s] \in {"s1_hold", "wait", "s2_hold"}
    /\ faults_left > 0
    /\ faults_left' = faults_left - 1
    /\ Log(<<"sequence_failed">>)
    /\ spc' = [spc EXCEPT ![s] = "exc_off1"]
    /\ si' = [si EXCEPT ![s] = 0]
    /\ UNCHANGED <<status, detection_history, gpio_initialized, restVars, pump, valve,
                   recording_lock, prediction_lock, stop_event, auto_thread, cycleVars,
                   cancel_note, callVars>>

\* except branch: control_pump(1, "OFF"), then control_pump(2, "OFF")
SeqExceptOff(s) ==
    /\ spc[s] \in {"exc_off1", "exc_off2"}
    /\ \E fault \in FaultChoices :
         Engage(IF spc[s] = "exc_off1" THEN 1 ELSE 2, "OFF", fault, status, <<>>, <<>>, <<>>)
    /\ spc' = [spc EXCEPT ![s] = IF spc[s] = "exc_off1" THEN "exc_off2" ELSE "finally_exc"]
    /\ UNCHANGED <<si, cancel_note, otherVarsSeq>>

\* The finally clause is entered from a return after a cancellation, from a
\* return after a failed engage, from the end of the try block, or from the
\* except branch.
FinallyStates == {"finally_cancel", "finally_fail", "finally_done", "finally_exc"}

\* finally: update_status(snoring_response_active=False); the thread ends
SeqFinally(s) ==
    /\ spc[s] \in FinallyStates
    /\ status' = update_status(status, "snoring_response_active", FALSE)
    /\ spc' = [spc EXCEPT ![s] = NONE]
    /\ cancel_note' = [cancel_note EXCEPT ![s] = "no"]
    /\ UNCHANGED <<detection_history, activity_log, gpioVars, recording_lock, prediction_lock,
                   stop_event, auto_thread, cycleVars, si, callVars>>

(* ---------------- SnoreDetectionSystem._auto_detection_loop ---------------- *)
\* top of the while loop: leave when the Event is set or auto detection is
\* disabled; sleep(2) and retry while a recording or a response sequence is
\* shown; else call record_and_predict
LoopTop(l) ==
    /\ pc[l] = "loop_top"
    /\ IF stop_event \/ ~status.auto_detect_enabled
       THEN /\ pc' = [pc EXCEPT ![l] = "dead"]
            /\ UNCHANGED <<loop_delay, cycles_left>>
       ELSE IF status.is_recording \/ status.snoring_response_active
       THEN UNCHANGED <<pc, loop_delay, cycles_left>>
       ELSE /\ cycles_left > 0
            /\ cycles_left' = cycles_left - 1
            /\ loop_delay' = [loop_delay EXCEPT ![l] = status.detection_delay]
            /\ pc' = [pc EXCEPT ![l] = "rp_start"]
    /\ UNCHANGED <<storeVars, gpioVars, recording_lock, prediction_lock, stop_event,
                   auto_thread, result, already_active, wait_left, seqVars, callVars>>

\* wait_seconds: the full delay after a qualifying result, else 5
wait_seconds(r, delay) ==
    IF r # NO_RESULT /\ is_snoring(r) /\ confidence_above_threshold(r)
    THEN delay * SECONDS_PER_MINUTE ELSE RETRY_WAIT

\* after record_and_predict: determine the wait, log it after a detection
LoopAfter(l) ==
    /\ pc[l] = "loop_after"
    /\ wait_left' = [wait_left EXCEPT ![l] = wait_seconds(result[l], loop_delay[l])]
    /\ Log(IF result[l] # NO_RESULT /\ Qualifies(result[l])
           THEN <<"next_detection_in">> ELSE <<>>)
    /\ result' = [result EXCEPT ![l] = NO_RESULT]
    /\ pc' = [pc EXCEPT ![l] = "loop_wait"]
    /\ UNCHANGED <<status, detection_history, gpioVars, recording_lock, prediction_lock,
                   stop_event, auto_thread, already_active, loop_delay, cycles_left,
                   seqVars, callVars>>

\* for _ in range(wait_seconds): if stop_event.wait(1): return
LoopWaitTick(l) ==
    /\ pc[l] = "loop_wait"
    /\ IF wait_left[l] = 0
       THEN /\ pc' = [pc EXCEPT ![l] = "loop_top"]
            /\ UNCHANGED wait_left
       ELSE IF stop_event
       THEN /\ pc' = [pc EXCEPT ![l] = "dead"]
            /\ wait_left' = [wait_left EXCEPT ![l] = 0]
       ELSE /\ wait_left' = [wait_left EXCEPT ![l] = wait_left[l] - 1]
            /\ UNCHANGED pc
    /\ UNCHANGED <<storeVars, gpioVars, recording_lock, prediction_lock, stop_event,
                   auto_thread, result, already_active, loop_delay, cycles_left, seqVars, callVars>>

\* a variant in which the exception ends the loop thread
LoopException_fatal(l) ==
    /\ pc[l] \in {"loop_after", "loop_wait"}
    /\ faults_left > 0
    /\ faults_left' = faults_left - 1
    /\ Log(<<"auto_detection_error">>)
    /\ wait_left' = [wait_left EXCEPT ![l] = 0]
    /\ result' = [result EXCEPT ![l] = NO_RESULT]
    /\ pc' = [pc EXCEPT ![l] = "dead"]
    /\ UNCHANGED <<status, detection_history, gpio_initialized, pump, valve, restVars,
                   recording_lock, prediction_lock, stop_event, auto_thread, already_active,
                   loop_delay, cycles_left, seqVars, callVars>>

\* an exception raised inside the try block of an iteration, after
\* record_and_predict has returned: the except branch logs it and goes to
\* time.sleep(10)
LoopException(l) ==
    /\ pc[l] \in {"loop_after", "loop_wait"}
    /\ faults_left > 0
    /\ faults_left' = faults_left - 1
    /\ Log(<<"auto_detection_error">>)
    /\ wait_left' = [wait_left EXCEPT ![l] = ERROR_BACKOFF]
    /\ result' = [result EXCEPT ![l] = NO_RESULT]
    /\ pc' = [pc EXCEPT ![l] = "loop_backoff"]
    /\ UNCHANGED <<status, detection_history, gpio_initialized, pump, valve, restVars,
                   recording_lock, prediction_lock, stop_event, auto_thread, already_active,
                   loop_delay, cycles_left, seqVars, callVars>>

\* one second of time.sleep(10), the Event not looked at; after the last
\* one the thread is back at the while condition
LoopBackoff(l) ==
    /\ pc[l] = "loop_backoff"
    /\ IF wait_left[l] > 0
       THEN /\ wait_left' = [wait_left EXCEPT ![l] = wait_left[l] - 1]
            /\ UNCHANGED pc
       ELSE /\ pc' = [pc EXCEPT ![l] = "loop_top"]
            /\ UNCHANGED wait_left
    /\ UNCHANGED <<storeVars, gpioVars, recording_lock, prediction_lock, stop_event,
                   auto_thread, result, already_active, loop_delay, cycles_left, seqVars, callVars>>

(* ---------------- start_auto_detection / stop_auto_detection ---------------- *)
otherVarsCall == <<detection_history, gpioVars, recording_lock, prediction_lock,
                   result, already_active, loop_delay, wait_left, cycles_left, spc, si,
                   manualVars>>

\* a request handler calls start_auto_detection or stop_auto_detection
CallBegin(c) ==
    /\ cpc[c] = "idle"
    /\ calls[c] < MaxCalls
    /\ calls' = [calls EXCEPT ![c] = calls[c] + 1]
    /\ \E op \in {"start_check", "stop_disable"} : cpc' = [cpc EXCEPT ![c] = op]
    /\ UNCHANGED <<status, activity_log, stop_event, auto_thread, pc, cancel_note, otherVarsCall,
                   stop_requested>>

\* if self._auto_detection_thread and self._auto_detection_thread.is_alive():
\*     return "Auto detection already running"
StartCheck(c) ==
    /\ cpc[c] = "start_check"
    /\ cpc' = [cpc EXCEPT ![c] =
                 IF auto_thread # NONE /\ is_alive(auto_thread) THEN "idle" ELSE "start_enable"]
    /\ UNCHANGED <<status, activity_log, stop_event, auto_thread, pc, calls, cancel_note,
                   otherVarsCall,
                   stop_requested>>

\* update_status(auto_detect_enabled=True)
StartEnable(c) ==
    /\ cpc[c] = "start_enable"
    /\ status' = update_status(status, "auto_detect_enabled", TRUE)
    /\ cpc' = [cpc EXCEPT ![c] = "start_clear"]
    /\ UNCHANGED <<activity_log, stop_event, auto_thread, pc, calls, cancel_note, otherVarsCall,
                   stop_requested>>

\* self._auto_detection_stop_event.clear()
StartClear(c) ==
    /\ cpc[c] = "start_clear"
    /\ stop_event' = FALSE
    /\ cpc' = [cpc EXCEPT ![c] = "start_spawn"]
    /\ UNCHANGED <<status, activity_log, auto_thread, pc, calls, cancel_note, otherVarsCall,
                   stop_requested>>

FreeLoops == {l \in Loops : ~is_alive(l)}

\* self._auto_detection_thread = Thread(...); .start(); the "started" entry
StartSpawn(c) ==
    /\ cpc[c] = "start_spawn"
    /\ FreeLoops # {}
    /\ LET l == CHOOSE x \in FreeLoops : TRUE
       IN  /\ auto_thread' = l
           /\ pc' = [pc EXCEPT ![l] = "loop_top"]
    /\ Log(<<"auto_detection_started">>)
    /\ cpc' = [cpc EXCEPT ![c] = "idle"]
    /\ UNCHANGED <<status, stop_event, calls, cancel_note, otherVarsCall,
                   stop_requested>>

\* update_status(auto_detect_enabled=False)
StopDisable(c) ==
    /\ cpc[c] = "stop_disable"
    /\ status' = update_status(status, "auto_detect_enabled", FALSE)
    /\ cpc' = [cpc EXCEPT ![c] = "stop_set"]
    /\ stop_requested' = TRUE
    /\ UNCHANGED <<activity_log, stop_event, auto_thread, pc, calls, cancel_note, otherVarsCall>>

\* self._auto_detection_stop_event.set()
StopSet(c) ==
    /\ cpc[c] = "stop_set"
    /\ stop_event' = TRUE
    /\ cancel_note' = [s \in Seqs |->
                         IF spc[s] \in {"s1_hold", "s1_off"} /\ cancel_note[s] = "no"
                         THEN "signalled" ELSE cancel_note[s]]
    /\ cpc' = [cpc EXCEPT ![c] = "stop_join"]
    /\ UNCHANGED <<status, activity_log, auto_thread, pc, calls, otherVarsCall,
                   stop_requested>>

\* join(timeout=5) when the thread is alive: returns when the thread has
\* ended or the timeout has passed; then the "stopped" entry
StopJoin(c) ==
    /\ cpc[c] = "stop_join"
    /\ Log(<<"auto_detection_stopped">>)
    /\ cpc' = [cpc EXCEPT ![c] = "idle"]
    /\ UNCHANGED <<status, stop_event, auto_thread, pc, calls, cancel_note, otherVarsCall,
                   stop_requested>>

(* ---------------- adjust_pillow / deflate_pillow ---------------- *)
\* api_adjust_pillow and api_deflate_pillow run the operation in a thread of
\* its own.  Every control_pump call of the operation is one step, as in the
\* response sequence; a second of a time.sleep is one step.
Levels == 0..4
ValidLevels == {1, 2, 3}
Operations == {"adjust", "deflate"}
NO_OPERATION == [op |-> "deflate", level |-> 0]
PillowHolds == {"adj_hold2", "adj_hold1", "defl_hold"}

\* duration_map = {1: 15, 2: 30, 3: 50}, in ticks
duration_map(level) == level * INFLATE_STEP

otherVarsManual == <<detection_history, recording_lock, prediction_lock, stop_event,
                     auto_thread, cycleVars, seqVars, callerVars, probeVars>>

\* POST /api/adjust_pillow: Thread(target=adjust_task).start()
api_adjust_pillow(level) ==
    /\ ppc = "idle"
    /\ preq' = [op |-> "adjust", level |-> level]
    /\ ppc' = "adj_check"
    /\ UNCHANGED <<storeVars, gpioVars, pret, phold, otherVarsManual>>

\* POST /api/deflate_pillow: Thread(target=deflate_task).start()
api_deflate_pillow ==
    /\ ppc = "idle"
    /\ preq' = [op |-> "deflate", level |-> 0]
    /\ ppc' = "defl_on"
    /\ UNCHANGED <<storeVars, gpioVars, pret, phold, otherVarsManual>>

\* if level not in [1, 2, 3]: return the failure; else the first log entry
AdjustCheck ==
    /\ ppc = "adj_check"
    /\ IF preq.level \in ValidLevels
       THEN /\ Log(<<"adjusting_pillow">>)
            /\ ppc' = "adj_on2"
            /\ UNCHANGED pret
       ELSE /\ pret' = "rejected"
            /\ ppc' = "done"
            /\ UNCHANGED activity_log
    /\ UNCHANGED <<status, detection_history, gpioVars, preq, phold, otherVarsManual>>

\* result = control_pump(2, "ON"); if not result["success"]: return result
AdjustDeflateOn ==
    /\ ppc = "adj_on2"
    /\ \E fault \in FaultChoices :
         /\ Engage(2, "ON", fault, status, <<>>, <<>>, <<>>)
         /\ IF EngageSucceeds(2, fault)
            THEN ppc' = "adj_hold2" /\ phold' = ADJUST_DEFLATE /\ UNCHANGED pret
            ELSE ppc' = "done" /\ pret' = "failed" /\ UNCHANGED phold
    /\ UNCHANGED <<preq, otherVarsManual>>

\* one second of time.sleep(20), time.sleep(duration) or time.sleep(30):
\* the Event is not looked at
PillowSleep ==
    /\ ppc \in PillowHolds
    /\ phold > 0
    /\ phold' = phold - 1
    /\ UNCHANGED <<storeVars, gpioVars, ppc, preq, pret, otherVarsManual>>

\* control_pump(2, "OFF") after the sleep; its result is not looked at
AdjustDeflateOff ==
    /\ ppc = "adj_hold2"
    /\ phold = 0
    /\ \E fault \in FaultChoices : Engage(2, "OFF", fault, status, <<>>, <<>>, <<>>)
    /\ ppc' = "adj_on1"
    /\ UNCHANGED <<preq, pret, phold, otherVarsManual>>

\* result = control_pump(1, "ON"); if not result["success"]: return result
AdjustInflateOn ==
    /\ ppc = "adj_on1"
    /\ \E fault \in FaultChoices :
         /\ Engage(1, "ON", fault, status, <<>>, <<>>, <<>>)
         /\ IF EngageSucceeds(1, fault)
            THEN ppc' = "adj_hold1" /\ phold' = duration_map(preq.level) /\ UNCHANGED pret
            ELSE ppc' = "done" /\ pret' = "failed" /\ UNCHANGED phold
    /\ UNCHANGED <<preq, otherVarsManual>>

\* control_pump(1, "OFF") after the sleep, the "adjusted" entry, success
AdjustInflateOff ==
    /\ ppc = "adj_hold1"
    /\ phold = 0
    /\ \E fault \in FaultChoices :
         Engage(1, "OFF", fault, status, <<>>, <<"pillow_adjusted">>, <<"pillow_adjusted">>)
    /\ ppc' = "done"
    /\ pret' = "ok"
    /\ UNCHANGED <<preq, phold, otherVarsManual>>

\* deflate_pillow: the first log entry, result = control_pump(2, "ON");
\* if not result["success"]: return result
DeflateOn ==
    /\ ppc = "defl_on"
    /\ \E fault \in FaultChoices :
         /\ Engage(2, "ON", fault, status, <<"deflating_pillow">>, <<>>, <<>>)
         /\ IF EngageSucceeds(2, fault)
            THEN ppc' = "defl_hold" /\ phold' = DEFLATE_DURATION /\ UNCHANGED pret
            ELSE ppc' = "done" /\ pret' = "failed" /\ UNCHANGED phold
    /\ UNCHANGED <<preq, otherVarsManual>>

\* control_pump(2, "OFF") after the sleep, the "deflated" entry, success
DeflateOff ==
    /\ ppc = "defl_hold"
    /\ phold = 0
    /\ \E fault \in FaultChoices :
         Engage(2, "OFF", fault, status, <<>>, <<"pillow_deflated">>, <<"pillow_deflated">>)
    /\ ppc' = "done"
    /\ pret' = "ok"
    /\ UNCHANGED <<preq, phold, otherVarsManual>>

\* an exception raised inside the try block while the thread sleeps
PillowException ==
    /\ ppc \in PillowHolds
    /\ faults_left > 0
    /\ faults_left' = faults_left - 1
    /\ ppc' = IF preq.op = "adjust" THEN "exc_off1" ELSE "exc_off2"
    /\ phold' = 0
    /\ UNCHANGED <<storeVars, gpio_initialized, pump, valve, restVars, preq, pret,
                   otherVarsManual>>

\* except branch of adjust_pillow: control_pump(1, "OFF"), control_pump(2, "OFF");
\* of deflate_pillow: control_pump(2, "OFF"); then the log entry and the failure
PillowExceptOff ==
    /\ ppc \in {"exc_off1", "exc_off2"}
    /\ \E fault \in FaultChoices :
         IF ppc = "exc_off1"
         THEN Engage(1, "OFF", fault, status, <<>>, <<>>, <<>>)
         ELSE Engage(2, "OFF", fault, status, <<>>, <<"pillow_failed">>, <<"pillow_failed">>)
    /\ ppc' = IF ppc = "exc_off1" THEN "exc_off2" ELSE "done"
    /\ pret' = IF ppc = "exc_off1" THEN pret ELSE "error"
    /\ UNCHANGED <<preq, phold, otherVarsManual>>

Manual ==
    \/ \E level \in Levels : api_adjust_pillow(level)
    \/ api_deflate_pillow
    \/ AdjustCheck
    \/ AdjustDeflateOn
    \/ PillowSleep
    \/ AdjustDeflateOff
    \/ AdjustInflateOn
    \/ AdjustInflateOff
    \/ DeflateOn
    \/ DeflateOff
    \/ PillowException
    \/ PillowExceptOff

\* POST /api/pump: control_pump(pump_number, action), whatever the status shows
api_pump(pump_number, action) ==
    /\ \E fault \in FaultChoices : Engage(pump_number, action, fault, status, <<>>, <<>>, <<>>)
    /\ UNCHANGED <<detection_history, recording_lock, prediction_lock, stop_event,
                   auto_thread, cycleVars, seqVars, callVars>>

(* ---------------- ThreadSafeData under load ---------------- *)
hwVars == <<gpio_initialized, pump, valve, faults_left>>
threadVars == <<recording_lock, prediction_lock, stop_event, auto_thread,
                cycleVars, seqVars, callVars, outcomes>>

\* the n-th detection record and the n-th log entry ever appended
RecordNo(n) == [result |-> NO_RESULT, audio_file |-> n]
EntryNo(n) == n

\* Some thread calls add_detection_record.  The call runs under
\* ThreadSafeData._lock from its append to its pop, so it is one step
\* whichever thread makes it.
StoreAddRecord ==
    /\ records_added < MAX_DETECTION_HISTORY + MaxOverflow
    /\ records_added' = records_added + 1
    /\ detection_history' = add_detection_record(detection_history, RecordNo(records_added + 1))
    /\ UNCHANGED <<status, activity_log, entries_added, delay_calls, delay_ret, input_shape,
                   model_type, hwVars, ctlVars, threadVars>>

\* Some thread calls add_log_entry, also under ThreadSafeData._lock.
StoreAddLog ==
    /\ entries_added < MAX_ACTIVITY_LOG + MaxOverflow
    /\ entries_added' = entries_added + 1
    /\ activity_log' = add_log_entry(activity_log, EntryNo(entries_added + 1))
    /\ UNCHANGED <<status, detection_history, records_added, delay_calls, delay_ret, input_shape,
                   model_type, hwVars, ctlVars, threadVars>>

(* ---------------- set_detection_delay ---------------- *)
DelayInputs == (MIN_DELAY - 2)..(MAX_DELAY + 2)
NO_DELAY_CALL == [minutes |-> 0, success |-> FALSE]

\* not (1 <= delay_minutes <= 60) is the rejection test
delay_valid(m) == MIN_DELAY <= m /\ m <= MAX_DELAY

\* a variant that clamps an out-of-range value instead of rejecting it
set_detection_delay_clamping(m) ==
    LET c == IF m < MIN_DELAY THEN MIN_DELAY ELSE IF m > MAX_DELAY THEN MAX_DELAY ELSE m
    IN  /\ delay_calls < MaxDelayCalls
        /\ delay_calls' = delay_calls + 1
        /\ status' = update_status(status, "detection_delay", c)
        /\ activity_log' = add_log_entry(activity_log, "delay_set")
        /\ delay_ret' = [minutes |-> m, success |-> TRUE]
        /\ UNCHANGED <<detection_history, records_added, entries_added, input_shape, model_type,
                       hwVars, ctlVars, threadVars>>

\* set_detection_delay(delay_minutes): reject out of range, else store and log
set_detection_delay(m) ==
    /\ delay_calls < MaxDelayCalls
    /\ delay_calls' = delay_calls + 1
    /\ IF delay_valid(m)
       THEN /\ status' = update_status(status, "detection_delay", m)
            /\ activity_log' = add_log_entry(activity_log, "delay_set")
            /\ delay_ret' = [minutes |-> m, success |-> TRUE]
       ELSE /\ delay_ret' = [minutes |-> m, success |-> FALSE]
            /\ UNCHANGED <<status, activity_log>>
    /\ UNCHANGED <<detection_history, records_added, entries_added, input_shape, model_type,
                   hwVars, ctlVars, threadVars>>

(* ---------------- ModelHandler._detect_model_type ---------------- *)
\* dimension 0 stands for None, the batch dimension
Dims == {0, 13, LEGACY_FEATURES, 128}
Shapes == UNION {[1..n -> Dims] : n \in 0..MaxRank}
\* readable = FALSE: reading model.input_shape, or taking its length, raises
ShapeInputs == [readable : BOOLEAN, dims : Shapes]
NO_SHAPE == [readable |-> FALSE, dims |-> <<>>]

detect_model_type(shape) ==
    IF ~shape.readable THEN "legacy"
    ELSE IF Len(shape.dims) = 2
         THEN (IF shape.dims[2] = LEGACY_FEATURES THEN "legacy" ELSE "unknown")
    ELSE IF Len(shape.dims) = 3 THEN "improved"
    ELSE "legacy"

\* _load_model: self.model_type = self._detect_model_type()
LoadModel ==
    /\ model_type = NONE
    /\ model_type' = detect_model_type(input_shape)
    /\ UNCHANGED <<storeVars, records_added, entries_added, delay_calls, delay_ret, input_shape,
                   hwVars, ctlVars, threadVars>>

(* ---------------- ModelHandler.predict: the arrays ---------------- *)
\* An array is followed by its shape.  No array: made = FALSE.
N_MELS == 128
\* frames of a mel spectrogram of the normalised clip (librosa hop of 512)
TIME_STEPS == 1 + (48000 * 5) \div 512
NO_ARRAY == [made |-> FALSE, shape |-> <<>>]
Array(shape) == [made |-> TRUE, shape |-> shape]

\* np.mean(mfccs.T, axis=0) of the (frames, 40) MFCC matrix
extract_features_legacy == Array(<<LEGACY_FEATURES>>)
\* mel_spec_db.T, of shape (time_steps, n_mels)
extract_features_improved == Array(<<TIME_STEPS, N_MELS>>)

extract_features(type) ==
    IF type = "legacy" THEN extract_features_legacy
    ELSE IF type = "improved" THEN extract_features_improved
    ELSE extract_features_legacy

\* np.expand_dims(features, axis=0)
expand_dims(array) == Array(<<1>> \o array.shape)

\* "Prepare features for prediction": the if / elif of predict, with no else
prepare_features(type, array) ==
    IF type = "legacy" THEN expand_dims(array)
    ELSE IF type = "improved" THEN expand_dims(array)
    ELSE array

arrayFrame == <<status, baseFrame, lockedVars, lockerVars>>

\* features = self.extract_features(audio_path); an extractor that raises
\* ends the call in the except branch of predict
PredictExtract ==
    /\ model_type # NONE
    /\ apc = "idle"
    /\ \E raised \in BOOLEAN :
           IF raised
           THEN /\ apc' = "failed"
                /\ UNCHANGED features
           ELSE /\ features' = extract_features(model_type)
                /\ apc' = "extracted"
    /\ UNCHANGED <<model_input, arrayFrame>>

\* the preparation, then self.model.predict(features, verbose=0)
PredictInfer ==
    /\ apc = "extracted"
    /\ model_input' = prepare_features(model_type, features)
    /\ apc' = "inferred"
    /\ UNCHANGED <<features, arrayFrame>>

(* ---------------- ThreadSafeData: the lock around the status ---------------- *)
\* update_status and get_status, followed through `with self._lock`: the
\* lock, dict.update storing the keyword arguments one key after the
\* other, the release; and the copy a reader takes and then changes.
Updaters == {"upd1", "upd2"}
\* keyword arguments of an update_status call, in the order dict.update stores them
Partials == {<<<<"is_recording", TRUE>>, <<"pump_status", TRUE>>>>,
             <<<<"is_recording", FALSE>>, <<"pump_status", FALSE>>>>,
             <<<<"snoring_response_active", TRUE>>>>,
             <<<<"snoring_response_active", FALSE>>>>}
NO_PARTIAL == <<>>
\* the keys GET /api/status adds to the dict it got
ResponseKeys == {"recording", "pump", "auto_detect", "delay"}

\* with self._lock: (update_status)
UpdateAcquire(u) ==
    /\ upc[u] = "idle"
    /\ store_lock = NONE
    /\ \E kwargs \in Partials : pending' = [pending EXCEPT ![u] = kwargs]
    /\ store_lock' = u
    /\ upc' = [upc EXCEPT ![u] = "locked"]
    /\ UNCHANGED <<status, committed, rpc, snap, snap_ref, baseFrame, arrayVars, lockerVars>>

\* self._system_status.update(kwargs), one key
UpdateField(u) ==
    /\ upc[u] = "locked"
    /\ pending[u] # <<>>
    /\ status' = update_status(status, Head(pending[u])[1], Head(pending[u])[2])
    /\ pending' = [pending EXCEPT ![u] = Tail(pending[u])]
    /\ UNCHANGED <<store_lock, upc, committed, rpc, snap, snap_ref, baseFrame, arrayVars, lockerVars>>

\* the end of the with block
UpdateRelease(u) ==
    /\ upc[u] = "locked"
    /\ pending[u] = <<>>
    /\ store_lock' = NONE
    /\ committed' = status
    /\ upc' = [upc EXCEPT ![u] = "idle"]
    /\ UNCHANGED <<status, pending, rpc, snap, snap_ref, baseFrame, arrayVars, lockerVars>>

\* ThreadSafeData.get_status: with self._lock: return self._system_status.copy()
get_status_unlocked ==
    /\ rpc = "idle"
    /\ snap' = status
    /\ snap_ref' = "copy"
    /\ rpc' = "copied"
    /\ UNCHANGED <<status, store_lock, upc, pending, committed, baseFrame, arrayVars, lockerVars>>
get_status ==
    /\ rpc = "idle"
    /\ store_lock = NONE
    /\ snap' = status
    /\ snap_ref' = "copy"
    /\ rpc' = "copied"
    /\ UNCHANGED <<status, store_lock, upc, pending, committed, baseFrame, arrayVars, lockerVars>>

\* what status.update({...}) of GET /api/status makes of the dict d
response_of(d) ==
    [k \in DOMAIN d \cup ResponseKeys |->
        IF k = "recording" THEN d.is_recording
        ELSE IF k = "pump" THEN d.pump_status
        ELSE IF k = "auto_detect" THEN d.auto_detect_enabled
        ELSE IF k = "delay" THEN d.detection_delay
        ELSE d[k]]

\* GET /api/status: status.update({...}) on the object get_status returned
api_status_update ==
    /\ rpc = "copied"
    /\ IF snap_ref = "stored"
       THEN /\ status' = response_of(status)
            /\ snap' = response_of(status)
       ELSE /\ snap' = response_of(snap)
            /\ UNCHANGED status
    /\ rpc' = "edited"
    /\ UNCHANGED <<store_lock, upc, pending, committed, snap_ref, baseFrame, arrayVars, lockerVars>>

\* return jsonify(status): the handler and its dict are gone
api_status_return ==
    /\ rpc = "edited"
    /\ rpc' = "idle"
    /\ snap' = InitialStatus
    /\ snap_ref' = "none"
    /\ UNCHANGED <<status, store_lock, upc, pending, committed, baseFrame, arrayVars, lockerVars>>

(* ---------------- the four locks, call by call ---------------- *)
\* Every call of the program as the sequence of its `with` entries and
\* exits: the controller lock, the recording lock, the prediction lock and
\* the lock of the store.  All four are threading.Lock, not reentrant.
Lockers == {"thr1", "thr2", "thr3"}
LockNames == {"gpio", "recording", "prediction", "store"}
OuterLocks == {"gpio", "recording", "prediction"}
Acquire(lock) == <<"acquire", lock>>
Release(lock) == <<"release", lock>>

\* one method of ThreadSafeData: with self._lock: ... with no call inside
store_call_engaging == <<Acquire("store"), Acquire("gpio"), Release("gpio"), Release("store")>>
store_call == <<Acquire("store"), Release("store")>>

\* control_pump: update_status and add_log_entry, or the except branch's
\* add_log_entry, inside `with self._lock`
control_pump_locks(ok) ==
    <<Acquire("gpio")>> \o (IF ok THEN store_call \o store_call ELSE store_call)
        \o <<Release("gpio")>>
\* control_valve: one add_log_entry inside `with self._lock`
control_valve_locks == <<Acquire("gpio")>> \o store_call \o <<Release("gpio")>>
\* record_audio: flag, log entry, the saved or the failed entry, flag
record_audio_locks ==
    <<Acquire("recording")>> \o store_call \o store_call \o store_call \o store_call
        \o <<Release("recording")>>
\* predict: a failing extractor logs, and the except branch logs again
predict_locks(ok) ==
    <<Acquire("prediction")>> \o (IF ok THEN <<>> ELSE store_call \o store_call)
        \o <<Release("prediction")>>
\* record_and_predict: record_audio, a log entry, predict, then the record
\* and get_status (or the "Prediction failed" entry)
record_and_predict_locks(ok) ==
    record_audio_locks \o store_call \o predict_locks(ok)
        \o (IF ok THEN store_call \o store_call ELSE store_call)
\* _execute_snoring_response as far as its first control_pump pair, and its finally
response_locks(ok) ==
    store_call \o control_pump_locks(ok)
        \o (IF ok THEN control_pump_locks(TRUE) ELSE <<>>) \o store_call
\* stop_auto_detection: the flag and the log entry
stop_locks == store_call \o store_call

LockScripts ==
    {record_and_predict_locks(ok) : ok \in BOOLEAN}
        \cup {response_locks(ok) : ok \in BOOLEAN}
        \cup {control_pump_locks(ok) : ok \in BOOLEAN}
        \cup {control_valve_locks, stop_locks}

Owner(lock) ==
    IF lock = "gpio" THEN gpio_lock
    ELSE IF lock = "recording" THEN recording_lock
    ELSE IF lock = "prediction" THEN prediction_lock
    ELSE store_lock

SetOwner(lock, owner) ==
    /\ gpio_lock' = IF lock = "gpio" THEN owner ELSE gpio_lock
    /\ recording_lock' = IF lock = "recording" THEN owner ELSE recording_lock
    /\ prediction_lock' = IF lock = "prediction" THEN owner ELSE prediction_lock
    /\ store_lock' = IF lock = "store" THEN owner ELSE store_lock

lockedFrame == <<upc, pending, committed, rpc, snap, snap_ref>>

\* a thread enters one of the calls
LockerCall(t) ==
    /\ lscript[t] = <<>>
    /\ \E script \in LockScripts : lscript' = [lscript EXCEPT ![t] = script]
    /\ UNCHANGED <<lwant, gpio_lock, recording_lock, prediction_lock, store_lock,
                   lockFrame, lockedFrame, arrayVars>>

\* the thread reaches a `with`: it takes the lock if it is free, and
\* blocks on it otherwise
LockerAcquire(t) ==
    /\ lscript[t] # <<>>
    /\ Head(lscript[t])[1] = "acquire"
    /\ IF Owner(Head(lscript[t])[2]) = NONE
       THEN /\ SetOwner(Head(lscript[t])[2], t)
            /\ lscript' = [lscript EXCEPT ![t] = Tail(lscript[t])]
            /\ lwant' = [lwant EXCEPT ![t] = NONE]
       ELSE /\ lwant[t] = NONE
            /\ lwant' = [lwant EXCEPT ![t] = Head(lscript[t])[2]]
            /\ UNCHANGED <<lscript, gpio_lock, recording_lock, prediction_lock, store_lock>>
    /\ UNCHANGED <<lockFrame, lockedFrame, arrayVars>>

\* the thread leaves a `with` block
LockerRelease(t) ==
    /\ lscript[t] # <<>>
    /\ Head(lscript[t])[1] = "release"
    /\ SetOwner(Head(lscript[t])[2], NONE)
    /\ lscript' = [lscript EXCEPT ![t] = Tail(lscript[t])]
    /\ UNCHANGED <<lwant, lockFrame, lockedFrame, arrayVars>>

(* ---------------- GPIOController, write by write ---------------- *)
\* The response sequence above takes a whole control_pump call as one step.
\* Here a call is followed line by line: the gpio_initialized test, the
\* lock, the channel selection, the two gpio_write calls, the status update.
Engagers == {"eng1", "eng2"}
Channels == {0, 1, 2, 3}
Actions == {"ON", "OFF"}
NO_REQUEST == [ch |-> 1, action |-> "OFF"]

\* what the frame of a controller step leaves alone
unitFrame == <<detection_history, records_added, entries_added, delay_calls, delay_ret,
               input_shape, model_type>>
threadFrame == <<recording_lock, prediction_lock, auto_thread, cycleVars, seqVars,
                 callVars, outcomes>>

\* the threads are daemon threads: they run until the process has exited
ProcessAlive == kpc # "exited"

\* can this lgpio.gpio_write raise: always on a closed chip handle, and as
\* an injected hardware error while errors are left to inject
WriteRaises == IF ~chip_open THEN {TRUE}
               ELSE IF faults_left > 0 THEN {FALSE, TRUE} ELSE {FALSE}

\* lgpio.gpio_write(self.h, <line of channel ch>, level)
gpio_write(line, ch, level) ==
    IF line = "pump"
    THEN pump' = [pump EXCEPT ![ch] = level] /\ UNCHANGED valve
    ELSE valve' = [valve EXCEPT ![ch] = level] /\ UNCHANGED pump

\* a variant that energizes the pump before it opens the valve
write_order_pump_first(action) ==
    IF action = "ON"
    THEN <<[line |-> "pump", level |-> 1], [line |-> "valve", level |-> 1]>>
    ELSE <<[line |-> "pump", level |-> 0], [line |-> "valve", level |-> 0]>>

\* ON: valve first, then pump; anything else: pump first, then valve
write_order(action) ==
    IF action = "ON"
    THEN <<[line |-> "valve", level |-> 1], [line |-> "pump", level |-> 1]>>
    ELSE <<[line |-> "pump", level |-> 0], [line |-> "valve", level |-> 0]>>

\* a thread calls control_pump(ch, action)
EngageCall(e) ==
    /\ ProcessAlive
    /\ epc[e] = "idle"
    /\ \E ch \in Channels, action \in Actions :
           ereq' = [ereq EXCEPT ![e] = [ch |-> ch, action |-> action]]
    /\ epc' = [epc EXCEPT ![e] = "check"]
    /\ eret' = [eret EXCEPT ![e] = "none"]
    /\ UNCHANGED <<storeVars, hwVars, gpio_lock, chip_open, kpc, shutdowns,
                   stop_event, unitFrame, threadFrame>>

\* a variant that goes on to the lock whatever gpio_initialized is
EngageCheck_untested(e) ==
    /\ ProcessAlive
    /\ epc[e] = "check"
    /\ epc' = [epc EXCEPT ![e] = "acquire"]
    /\ UNCHANGED <<storeVars, hwVars, gpio_lock, ereq, eret, chip_open, kpc, shutdowns,
                   stop_event, unitFrame, threadFrame>>

\* if not self.gpio_initialized: return the "GPIO not available" failure
EngageCheck(e) ==
    /\ ProcessAlive
    /\ epc[e] = "check"
    /\ IF gpio_initialized
       THEN /\ epc' = [epc EXCEPT ![e] = "acquire"]
            /\ UNCHANGED eret
       ELSE /\ epc' = [epc EXCEPT ![e] = "idle"]
            /\ eret' = [eret EXCEPT ![e] = "unavailable"]
    /\ UNCHANGED <<storeVars, hwVars, gpio_lock, ereq, chip_open, kpc, shutdowns,
                   stop_event, unitFrame, threadFrame>>

\* a variant that enters the critical section without the lock
EngageAcquire_unlocked(e) ==
    /\ ProcessAlive
    /\ epc[e] = "acquire"
    /\ epc' = [epc EXCEPT ![e] = "select"]
    /\ UNCHANGED <<storeVars, hwVars, gpio_lock, ereq, eret, chip_open, kpc, shutdowns,
                   stop_event, unitFrame, threadFrame>>

\* with self._lock:
EngageAcquire(e) ==
    /\ ProcessAlive
    /\ epc[e] = "acquire"
    /\ gpio_lock = NONE
    /\ gpio_lock' = e
    /\ epc' = [epc EXCEPT ![e] = "select"]
    /\ UNCHANGED <<storeVars, hwVars, ereq, eret, chip_open, kpc, shutdowns,
                   stop_event, unitFrame, threadFrame>>

\* a variant that takes any channel number for channel 2
EngageSelect_any_channel(e) ==
    /\ ProcessAlive
    /\ epc[e] = "select"
    /\ ereq' = [ereq EXCEPT ![e].ch = IF @ = 1 THEN 1 ELSE 2]
    /\ epc' = [epc EXCEPT ![e] = "write1"]
    /\ UNCHANGED <<storeVars, hwVars, gpio_lock, eret, chip_open, kpc, shutdowns,
                   stop_event, unitFrame, threadFrame>>

\* select the pins of channel 1 or 2; any other number returns the
\* "Invalid pump number" failure and leaves the with block
EngageSelect(e) ==
    /\ ProcessAlive
    /\ epc[e] = "select"
    /\ IF ereq[e].ch \in Pins
       THEN /\ epc' = [epc EXCEPT ![e] = "write1"]
            /\ UNCHANGED <<eret, gpio_lock>>
       ELSE /\ epc' = [epc EXCEPT ![e] = "idle"]
            /\ eret' = [eret EXCEPT ![e] = "invalid"]
            /\ gpio_lock' = NONE
    /\ UNCHANGED <<storeVars, hwVars, ereq, chip_open, kpc, shutdowns,
                   stop_event, unitFrame, threadFrame>>

\* the k-th gpio_write of the call, k = 1 for pc "write1", 2 for "write2"
EngageWrite(e) ==
    /\ ProcessAlive
    /\ epc[e] \in {"write1", "write2"}
    /\ LET k == IF epc[e] = "write1" THEN 1 ELSE 2
           w == write_order(ereq[e].action)[k]
       IN  \E raises \in WriteRaises :
             IF raises
             THEN /\ epc' = [epc EXCEPT ![e] = "except"]
                  /\ faults_left' = IF chip_open THEN faults_left - 1 ELSE faults_left
                  /\ UNCHANGED <<pump, valve>>
             ELSE /\ epc' = [epc EXCEPT ![e] = IF k = 1 THEN "write2" ELSE "status"]
                  /\ gpio_write(w.line, ereq[e].ch, w.level)
                  /\ UNCHANGED faults_left
    /\ UNCHANGED <<storeVars, gpio_initialized, gpio_lock, ereq, eret, chip_open, kpc,
                   shutdowns, stop_event, unitFrame, threadFrame>>

\* update_status(pump_status=...) for channel 1, the log entry, the success
\* result; leaving the with block releases the lock
EngageStatus(e) ==
    /\ ProcessAlive
    /\ epc[e] = "status"
    /\ status' = IF ereq[e].ch = 1
                 THEN update_status(status, "pump_status", ereq[e].action = "ON")
                 ELSE status
    /\ Log(IF ereq[e].action = "ON" THEN <<"pump_on">> ELSE <<"pump_off">>)
    /\ eret' = [eret EXCEPT ![e] = "ok"]
    /\ gpio_lock' = NONE
    /\ epc' = [epc EXCEPT ![e] = "idle"]
    /\ UNCHANGED <<detection_history, hwVars, ereq, chip_open, kpc, shutdowns,
                   stop_event, unitFrame, threadFrame>>

\* except Exception: log the error and return the failure
EngageExcept(e) ==
    /\ ProcessAlive
    /\ epc[e] = "except"
    /\ Log(<<"pump_control_error">>)
    /\ eret' = [eret EXCEPT ![e] = "error"]
    /\ gpio_lock' = NONE
    /\ epc' = [epc EXCEPT ![e] = "idle"]
    /\ UNCHANGED <<status, detection_history, hwVars, ereq, chip_open, kpc, shutdowns,
                   stop_event, unitFrame, threadFrame>>

\* control_valve(valve_number, action), a whole call: the gpio_initialized
\* test, the lock, the valve pin of channel 1 or 2 (any other number
\* returns the failure), one gpio_write of that pin, the log entry; a write
\* that raises is logged by the except branch
control_valve(valve_number, action) ==
    /\ ProcessAlive
    /\ gpio_initialized
    /\ gpio_lock = NONE
    /\ IF valve_number \in Pins
       THEN \E raises \in WriteRaises :
              IF raises
              THEN /\ Log(<<"valve_control_error">>)
                   /\ faults_left' = IF chip_open THEN faults_left - 1 ELSE faults_left
                   /\ UNCHANGED <<pump, valve>>
              ELSE /\ gpio_write("valve", valve_number, IF action = "ON" THEN 1 ELSE 0)
                   /\ Log(IF action = "ON" THEN <<"valve_on">> ELSE <<"valve_off">>)
                   /\ UNCHANGED faults_left
       ELSE UNCHANGED <<activity_log, pump, valve, faults_left>>
    /\ UNCHANGED <<status, detection_history, gpio_initialized, gpio_lock, epc, ereq, eret,
                   chip_open, kpc, shutdowns, stop_event, unitFrame, threadFrame>>

(* ---------------- shutdown path ---------------- *)
\* The main thread runs SnoreDetectionSystem.cleanup from _signal_handler,
\* and once more from the atexit hook that sys.exit(0) sets off.
CleanupLines == <<[line |-> "pump", ch |-> 1], [line |-> "pump", ch |-> 2],
                  [line |-> "valve", ch |-> 1], [line |-> "valve", ch |-> 2]>>
CleanupWrites == {"k_write1", "k_write2", "k_write3", "k_write4"}
WriteNo(p) == IF p = "k_write1" THEN 1 ELSE IF p = "k_write2" THEN 2
              ELSE IF p = "k_write3" THEN 3 ELSE 4
AfterWrite(p) == IF p = "k_write1" THEN "k_write2" ELSE IF p = "k_write2" THEN "k_write3"
                 ELSE IF p = "k_write3" THEN "k_write4" ELSE "k_close"

\* SIGINT or SIGTERM arrives: _signal_handler calls self.cleanup()
Signal ==
    /\ kpc = "idle"
    /\ kpc' = "k_stop"
    /\ UNCHANGED <<storeVars, hwVars, gpio_lock, epc, ereq, eret, chip_open, shutdowns,
                   stop_event, unitFrame, threadFrame>>

\* cleanup: self.stop_auto_detection().  No loop thread runs here, so the
\* call clears the enabled flag, sets the Event and logs.
CleanupStop ==
    /\ kpc = "k_stop"
    /\ status' = update_status(status, "auto_detect_enabled", FALSE)
    /\ stop_event' = TRUE
    /\ stop_requested' = TRUE
    /\ Log(<<"auto_detection_stopped">>)
    /\ kpc' = "k_check"
    /\ UNCHANGED <<detection_history, hwVars, gpio_lock, epc, ereq, eret, chip_open,
                   shutdowns, unitFrame, recording_lock, prediction_lock, auto_thread,
                   cycleVars, seqVars, cpc, calls, manualVars, outcomes>>

\* GPIOController.cleanup: if self.gpio_initialized and self.h is not None
CleanupCheck ==
    /\ kpc = "k_check"
    /\ kpc' = IF gpio_initialized THEN "k_write1" ELSE "k_return"
    /\ UNCHANGED <<storeVars, hwVars, gpio_lock, epc, ereq, eret, chip_open, shutdowns,
                   stop_event, unitFrame, threadFrame>>

\* one of the four gpio_write(..., 0) calls; it takes no lock
CleanupWrite ==
    /\ kpc \in CleanupWrites
    /\ IF chip_open
       THEN /\ gpio_write(CleanupLines[WriteNo(kpc)].line, CleanupLines[WriteNo(kpc)].ch, 0)
            /\ kpc' = AfterWrite(kpc)
       ELSE /\ kpc' = "k_except"
            /\ UNCHANGED <<pump, valve>>
    /\ UNCHANGED <<storeVars, gpio_initialized, faults_left, gpio_lock, epc, ereq, eret,
                   chip_open, shutdowns, stop_event, unitFrame, threadFrame>>

\* the four gpio_free calls, gpiochip_close and the log entry;
\* gpio_initialized and self.h stay as they are
CleanupClose ==
    /\ kpc = "k_close"
    /\ chip_open' = FALSE
    /\ Log(<<"gpio_cleanup_completed">>)
    /\ kpc' = "k_return"
    /\ UNCHANGED <<status, detection_history, hwVars, gpio_lock, epc, ereq, eret,
                   shutdowns, stop_event, unitFrame, threadFrame>>

\* a variant that lets the exception out of cleanup
CleanupExcept_reraise ==
    /\ kpc = "k_except"
    /\ kpc' = "k_raised"
    /\ UNCHANGED <<storeVars, hwVars, gpio_lock, epc, ereq, eret, chip_open, shutdowns,
                   stop_event, unitFrame, threadFrame>>

\* except Exception: logger.error only
CleanupExcept ==
    /\ kpc = "k_except"
    /\ kpc' = "k_return"
    /\ UNCHANGED <<storeVars, hwVars, gpio_lock, epc, ereq, eret, chip_open, shutdowns,
                   stop_event, unitFrame, threadFrame>>

\* cleanup returns: after the first run sys.exit(0) starts the atexit
\* hook, which runs cleanup again; after the second the process is gone
CleanupReturn ==
    /\ kpc = "k_return"
    /\ shutdowns' = shutdowns + 1
    /\ kpc' = IF shutdowns = 0 THEN "k_stop" ELSE "exited"
    /\ UNCHANGED <<storeVars, hwVars, gpio_lock, epc, ereq, eret, chip_open,
                   stop_event, unitFrame, threadFrame>>

Engaging(e) ==
    \/ EngageCall(e)
    \/ EngageCheck(e)
    \/ EngageAcquire(e)
    \/ EngageSelect(e)
    \/ EngageWrite(e)
    \/ EngageStatus(e)
    \/ EngageExcept(e)

Shutdown ==
    \/ Signal
    \/ CleanupStop
    \/ CleanupCheck
    \/ CleanupWrite
    \/ CleanupClose
    \/ CleanupExcept
    \/ CleanupReturn

(* ---------------- initial states ---------------- *)
\* The state after SnoreDetectionSystem() was constructed: every thread and
\* request is yet to come.  ready: did _initialize_gpio succeed;
\* faults: hardware errors to inject; callers: may start/stop be called;
\* budget: cycles the loop threads may run; results: what the classifier
\* can return.
SystemInit(ready, faults, requests, callers, budget, results) ==
    /\ outcomes = results
    /\ status = [InitialStatus EXCEPT !.gpio_ready = ready]
    /\ detection_history = <<>>
    /\ activity_log = <<>>
    /\ gpio_initialized = ready
    /\ pump = [p \in Pins |-> 0]
    /\ valve = [p \in Pins |-> 0]
    /\ faults_left = faults
    /\ recording_lock = NONE
    /\ prediction_lock = NONE
    /\ stop_event = FALSE
    /\ auto_thread = NONE
    /\ pc = [t \in CycleTasks |-> IF t \in requests THEN "idle"
                                  ELSE IF t \in Loops THEN "unborn" ELSE "absent"]
    /\ result = [t \in CycleTasks |-> NO_RESULT]
    /\ already_active = [t \in CycleTasks |-> FALSE]
    /\ loop_delay = [l \in Loops |-> 0]
    /\ wait_left = [l \in Loops |-> 0]
    /\ cycles_left = budget
    /\ spc = [s \in Seqs |-> NONE]
    /\ si = [s \in Seqs |-> 0]
    /\ cpc = [c \in Callers |-> IF c \in callers THEN "idle" ELSE "absent"]
    /\ calls = [c \in Callers |-> 0]
    /\ cancel_note = [s \in Seqs |-> "no"]
    /\ stop_requested = FALSE

\* nothing was appended and no delay was set
StoreIdle ==
    /\ records_added = 0
    /\ entries_added = 0
    /\ delay_calls = 0
    /\ delay_ret = NO_DELAY_CALL

\* the model type is not yet detected
ModelIdle ==
    /\ input_shape = NO_SHAPE
    /\ model_type = NONE

\* No control_pump call is under way.  engagers: the threads that will
\* call control_pump; signals: can a termination signal arrive.
ControllerIdle(engagers, signals) ==
    /\ gpio_lock = NONE
    /\ epc = [e \in Engagers |-> IF e \in engagers THEN "idle" ELSE "absent"]
    /\ ereq = [e \in Engagers |-> NO_REQUEST]
    /\ eret = [e \in Engagers |-> "none"]
    /\ chip_open = gpio_initialized
    /\ kpc = IF signals THEN "idle" ELSE "absent"
    /\ shutdowns = 0

\* no predict call has extracted anything
ArraysIdle ==
    /\ apc = "idle"
    /\ features = NO_ARRAY
    /\ model_input = NO_ARRAY

\* tasks: will a manual pillow operation be requested
\* nobody is inside the store; threads: is the status updated and read
LockedIdle(threads) ==
    /\ store_lock = NONE
    /\ upc = [u \in Updaters |-> IF threads THEN "idle" ELSE "absent"]
    /\ pending = [u \in Updaters |-> NO_PARTIAL]
    /\ committed = status
    /\ rpc = IF threads THEN "idle" ELSE "absent"
    /\ snap = InitialStatus
    /\ snap_ref = "none"

\* tasks: will a manual pillow operation be requested
PillowIdle(tasks) ==
    /\ ppc = IF tasks THEN "idle" ELSE "absent"
    /\ preq = NO_OPERATION
    /\ pret = "none"
    /\ phold = 0

\* no thread is inside a call that is followed lock by lock
LockersIdle ==
    /\ lscript = [t \in Lockers |-> <<>>]
    /\ lwant = [t \in Lockers |-> NONE]

ManualIdle(tasks) == PillowIdle(tasks) /\ ArraysIdle /\ LockedIdle(FALSE) /\ LockersIdle

UnitsIdle == StoreIdle /\ ModelIdle /\ ControllerIdle({}, FALSE) /\ ManualIdle(FALSE)

InitWith(ready, faults, requests, callers, budget, results) ==
    /\ SystemInit(ready, faults, requests, callers, budget, results)
    /\ UnitsIdle

(* ---------------- next-state relations ---------------- *)
Cycle(t) ==
    \/ record_audio_acquire(t)
    \/ record_audio_begin(t)
    \/ record_audio_stream(t)
    \/ record_audio_finally(t)
    \/ record_audio_release(t)
    \/ predict_acquire(t)
    \/ predict_run(t)
    \/ rp_record(t)
    \/ rp_decide(t)
    \/ rp_act(t)
    \/ rp_cleanup(t)

Sequence(s) ==
    \/ SeqBegin(s)
    \/ SeqStage1On(s)
    \/ SeqStage1Tick(s)
    \/ SeqStage1Off(s)
    \/ SeqWaitTick(s)
    \/ SeqStage2On(s)
    \/ SeqStage2Tick(s)
    \/ SeqStage2Off(s)
    \/ SeqFinally(s)

SequenceCancel(s) ==
    \/ SeqStage1Cancel(s)
    \/ SeqStage2Cancel(s)

SequenceFault(s) ==
    \/ SeqException(s)
    \/ SeqExceptOff(s)

Loop(l) ==
    \/ LoopTop(l)
    \/ LoopAfter(l)
    \/ LoopWaitTick(l)

LoopFault(l) ==
    \/ LoopException(l)
    \/ LoopBackoff(l)

Call(c) ==
    \/ CallBegin(c)
    \/ StartCheck(c)
    \/ StartEnable(c)
    \/ StartClear(c)
    \/ StartSpawn(c)
    \/ StopDisable(c)
    \/ StopSet(c)
    \/ StopJoin(c)

\* Concurrent /api/record requests and the response sequences they start.
Init == InitWith(TRUE, 0, Requests, {}, 0, Results)

Next ==
    \/ \E t \in Requests : api_record(t) \/ Cycle(t)
    \/ \E s \in Seqs : Sequence(s)

Spec == Init /\ [][Next]_vars

\* One request and its response sequence, with start/stop callers, hardware
\* errors and either outcome of _initialize_gpio.  The loop thread a start
\* call creates gets no cycle to run here.
SeqResults == {[class_name |-> "kron", confidence |-> 90],
               [class_name |-> "mai_kron", confidence |-> 99]}

InitSeq == \E ready \in BOOLEAN : InitWith(ready, MaxFaults, {"req1"}, Callers, 0, SeqResults)

NextSeq ==
    \/ api_record("req1") \/ Cycle("req1")
    \/ \E s \in Seqs : Sequence(s) \/ SequenceCancel(s) \/ SequenceFault(s)
    \/ \E c \in Callers : Call(c)
    \/ \E l \in Loops : LoopTop(l)

SpecSeq == InitSeq /\ [][NextSeq]_vars

\* Concurrent start/stop callers, the loop threads they create, the cycles
\* those run and the response sequences the cycles start.
InitLoop == InitWith(TRUE, 0, {}, Callers, MaxCycles, SeqResults)

NextLoop ==
    \/ \E c \in Callers : Call(c)
    \/ \E l \in Loops : Loop(l) \/ Cycle(l)
    \/ \E s \in Seqs : Sequence(s) \/ SequenceCancel(s)

SpecLoop == InitLoop /\ [][NextLoop]_vars

\* Threads appending detection records and log entries to the store.
InitStore == InitWith(TRUE, 0, {}, {}, 0, {})

NextStore == StoreAddRecord \/ StoreAddLog

SpecStore == InitStore /\ [][NextStore]_vars

\* Calls of set_detection_delay with arguments in and around 1..60.
InitDelay == InitWith(TRUE, 0, {}, {}, 0, {})

NextDelay == \E m \in DelayInputs : set_detection_delay(m)

SpecDelay == InitDelay /\ [][NextDelay]_vars

\* _load_model on a model of any declared input shape.
InitModel ==
    /\ SystemInit(TRUE, 0, {}, {}, 0, {})
    /\ StoreIdle
    /\ ControllerIdle({}, FALSE)
    /\ ManualIdle(FALSE)
    /\ input_shape \in ShapeInputs
    /\ model_type = NONE

NextModel == LoadModel \/ PredictExtract \/ PredictInfer

SpecModel == InitModel /\ [][NextModel]_vars

\* Two threads in update_status with any of the partial updates, and a
\* GET /api/status handler that takes the status and changes what it got.
InitStatus ==
    /\ SystemInit(TRUE, 0, {}, {}, 0, {})
    /\ StoreIdle
    /\ ModelIdle
    /\ ControllerIdle({}, FALSE)
    /\ PillowIdle(FALSE)
    /\ ArraysIdle
    /\ LockedIdle(TRUE)
    /\ LockersIdle

NextStatus ==
    \/ \E u \in Updaters : UpdateAcquire(u) \/ UpdateField(u) \/ UpdateRelease(u)
    \/ get_status
    \/ api_status_update
    \/ api_status_return

SpecStatus == InitStatus /\ [][NextStatus]_vars

\* Three threads, each in any of the calls, one call after the other.
InitLocks == InitWith(TRUE, 0, {}, {}, 0, {})

NextLocks == \E t \in Lockers : LockerCall(t) \/ LockerAcquire(t) \/ LockerRelease(t)

SpecLocks == InitLocks /\ [][NextLocks]_vars

\* Concurrent control_pump calls for any channel number and action, with
\* hardware errors and either outcome of _initialize_gpio.
InitEngage ==
    \E ready \in BOOLEAN :
        /\ SystemInit(ready, MaxFaults, {}, {}, 0, {})
        /\ StoreIdle /\ ModelIdle
        /\ ControllerIdle(Engagers, FALSE)
        /\ ManualIdle(FALSE)

NextEngage == \E e \in Engagers : Engaging(e)

SpecEngage == InitEngage /\ [][NextEngage]_vars

\* control_pump calls, then a termination signal once they have returned:
\* the shutdown path on its own, run by the signal handler and again by
\* the atexit hook.
CallAtRest(e) == kpc = "idle" /\ EngageCall(e)
SignalAtRest == (\A e \in Engagers : epc[e] = "idle") /\ Signal

InitCleanup ==
    \E ready \in BOOLEAN :
        /\ SystemInit(ready, MaxFaults, {}, {}, 0, {})
        /\ StoreIdle /\ ModelIdle
        /\ ControllerIdle(Engagers, TRUE)
        /\ ManualIdle(FALSE)

NextCleanup ==
    \/ \E e \in Engagers :
          \/ CallAtRest(e)
          \/ EngageCheck(e)
          \/ EngageAcquire(e)
          \/ EngageSelect(e)
          \/ EngageWrite(e)
          \/ EngageStatus(e)
          \/ EngageExcept(e)
    \/ SignalAtRest
    \/ CleanupStop
    \/ CleanupCheck
    \/ CleanupWrite
    \/ CleanupClose
    \/ CleanupExcept
    \/ CleanupReturn

SpecCleanup == InitCleanup /\ [][NextCleanup]_vars

\* A termination signal at any moment of concurrent control_pump calls.  The
\* calling threads are daemon threads: they run until the process is gone.
InitShutdown ==
    /\ SystemInit(TRUE, 0, {}, {}, 0, {})
    /\ StoreIdle /\ ModelIdle
    /\ ControllerIdle(Engagers, TRUE)
    /\ ManualIdle(FALSE)

NextShutdown ==
    \/ \E e \in Engagers : Engaging(e)
    \/ Shutdown

SpecShutdown == InitShutdown /\ [][NextShutdown]_vars

\* control_pump calls of one thread, control_valve calls and a termination
\* signal in any order.
InitValve ==
    /\ SystemInit(TRUE, 0, {}, {}, 0, {})
    /\ StoreIdle /\ ModelIdle
    /\ ControllerIdle({"eng1"}, TRUE)
    /\ ManualIdle(FALSE)

NextValve ==
    \/ \E e \in Engagers : Engaging(e)
    \/ \E valve_number \in Channels, action \in Actions : control_valve(valve_number, action)
    \/ Shutdown

SpecValve == InitValve /\ [][NextValve]_vars

\* One manual pillow operation with any level argument, beside start/stop
\* callers, with hardware errors and either outcome of _initialize_gpio.
InitPillow ==
    \E ready \in BOOLEAN :
        /\ SystemInit(ready, MaxFaults, {}, Callers, 0, {})
        /\ StoreIdle /\ ModelIdle /\ ControllerIdle({}, FALSE)
        /\ ManualIdle(TRUE)

NextPillow ==
    \/ Manual
    \/ \E c \in Callers : Call(c)
    \/ \E l \in Loops : LoopTop(l)

SpecPillow == InitPillow /\ [][NextPillow]_vars

\* One detection request and the response sequence it starts, beside the
\* manual requests: /api/pump, /api/adjust_pillow, /api/deflate_pillow.
InitOverride ==
    /\ SystemInit(TRUE, 0, {"req1"}, {}, 0, {[class_name |-> "kron", confidence |-> 90]})
    /\ StoreIdle /\ ModelIdle /\ ControllerIdle({}, FALSE)
    /\ ManualIdle(TRUE)

NextOverride ==
    \/ api_record("req1") \/ Cycle("req1")
    \/ \E s \in Seqs : Sequence(s)
    \/ \E pump_number \in Pins, action \in Actions : api_pump(pump_number, action)
    \/ \E level \in Levels : api_adjust_pillow(level)
    \/ api_deflate_pillow
    \/ AdjustCheck
    \/ AdjustDeflateOn
    \/ PillowSleep
    \/ AdjustDeflateOff
    \/ AdjustInflateOn
    \/ AdjustInflateOff
    \/ DeflateOn
    \/ DeflateOff

SpecOverride == InitOverride /\ [][NextOverride]_vars

\* SpecLoop with every thread scheduled fairly: a loop thread, a cycle, a
\* response sequence and a start or stop call that can take a step
\* eventually takes one.  Whether a request arrives at all is left open.
CallProgress(c) ==
    \/ StartCheck(c)
    \/ StartEnable(c)
    \/ StartClear(c)
    \/ StartSpawn(c)
    \/ StopDisable(c)
    \/ StopSet(c)
    \/ StopJoin(c)

Fairness ==
    /\ \A l \in Loops : WF_vars(Loop(l) \/ Cycle(l))
    /\ \A s \in Seqs : WF_vars(Sequence(s) \/ SequenceCancel(s))
    /\ \A c \in Callers : WF_vars(CallProgress(c))

SpecFair == InitLoop /\ [][NextLoop]_vars /\ Fairness

\* The loop of SpecLoop beside POST /api/set_delay requests.
LoopDelayInputs == {MIN_DELAY, MIN_DELAY + 1, MAX_DELAY + 1}

InitWait == InitWith(TRUE, 0, {}, Callers, MaxCycles, SeqResults)

NextWait ==
    \/ \E c \in Callers : Call(c)
    \/ \E l \in Loops : Loop(l) \/ Cycle(l)
    \/ \E s \in Seqs : Sequence(s) \/ SequenceCancel(s)
    \/ \E m \in LoopDelayInputs : set_detection_delay(m)

SpecWait == InitWait /\ [][NextWait]_vars

\* One start or stop caller, the loop thread it creates, and a POST
\* /api/record request beside them.
InitMix == InitWith(TRUE, 0, {"req1"}, {"call1"}, MaxCycles, SeqResults)

NextMix ==
    \/ api_record("req1") \/ Cycle("req1")
    \/ Call("call1")
    \/ \E l \in Loops : Loop(l) \/ Cycle(l)
    \/ \E s \in Seqs : Sequence(s) \/ SequenceCancel(s)

SpecMix == InitMix /\ [][NextMix]_vars

\* The supervisory loop under failures: start/stop callers, the loop
\* threads, cycles whose capture or classification can fail and whose
\* results never qualify, and exceptions inside an iteration.
QuietResults == {[class_name |-> "mai_kron", confidence |-> 99],
                 [class_name |-> "kron", confidence |-> 80]}

InitSupervise == InitWith(TRUE, MaxFaults, {}, Callers, MaxCycles, QuietResults)

NextSupervise ==
    \/ \E c \in Callers : Call(c)
    \/ \E l \in Loops :
          \/ Loop(l)
          \/ LoopFault(l)
          \/ record_audio_acquire(l)
          \/ record_audio_begin(l)
          \/ record_audio_stream(l)
          \/ record_audio_finally(l)
          \/ record_audio_release(l)
          \/ predict_acquire(l)
          \/ predict_run(l)
          \/ rp_record(l)
          \/ rp_decide(l)
          \/ rp_cleanup(l)

SpecSupervise == InitSupervise /\ [][NextSupervise]_vars

(* ---------------- properties: concurrent requests (Spec) ---------------- *)
RunningSeqs == {s \in Seqs : SeqRunning(s)}

\* tasks inside the with self._recording_lock block of record_audio
Capturing == {t \in CycleTasks : pc[t] \in {"rec_locked", "rec_stream", "rec_finally_ok",
                                            "rec_finally_err", "rec_release_ok",
                                            "rec_release_err"}}

\* a step that starts a response-sequence thread
Spawned == \E s \in Seqs : spc[s] = NONE /\ spc'[s] = "spawned"

HasRecordOf(t) == \E i \in 1..Len(detection_history) : detection_history[i].audio_file = t

\* C1: at most one response-sequence thread is running at any time.
C1_AtMostOneSequence == Cardinality(RunningSeqs) <= 1

\* C34: the flag snoring_response_active is TRUE in every state in which a
\* response-sequence thread has been started and has not ended: whenever
\* such a thread holds a channel engaged, and after another such thread
\* has ended.
C34_FlagWhileSequenceLives ==
    \A s \in Seqs : spc[s] # NONE => status.snoring_response_active

\* C36: while the Event is set, a running response sequence makes no
\* control_pump(_, "ON") call: neither the one of Stage 1 nor, after a
\* waiting period in whose last second the Event was set, the one of Stage 2.
C36_NoEngageAfterCancel ==
    [][\A s \in Seqs :
         (stop_event /\ spc[s] \in {"s1_on", "s2_on"}) => spc'[s] = spc[s]]_vars

\* C2: a cycle with a qualifying result that reads snoring_response_active =
\* TRUE logs the skip, starts no response thread and leaves every pump and
\* valve line alone; its detection record is in the history.
C2_SkipWhenActive ==
    [][\A t \in Requests :
        /\ (pc[t] = "rp_decide" /\ pc'[t] # "rp_decide"
            /\ result[t].class_name \in {"kron", "snoring", "Snoring", "SNORING"}
            /\ result[t].confidence > 85 /\ status.snoring_response_active)
           => (pc'[t] = "rp_act" /\ already_active'[t] /\ ~Spawned
               /\ pump' = pump /\ valve' = valve /\ HasRecordOf(t))
        /\ (pc[t] = "rp_act" /\ pc'[t] # "rp_act" /\ already_active[t])
           => (/\ LastLog' = "skipped_already_in_progress"
               /\ spc' = spc /\ pump' = pump /\ valve' = valve
               /\ HasRecordOf(t)' /\ detection_history' = detection_history)]_vars

C2_Witness ==
    \E t \in Requests :
        /\ pc[t] = "rp_cleanup" /\ LastLog = "skipped_already_in_progress"
        /\ HasRecordOf(t) /\ RunningSeqs # {}

\* C3: at most one thread is inside the capture section of record_audio.
C3_OneCapture == Cardinality(Capturing) <= 1

C3_Witness == pc["req1"] = "rec_stream" /\ pc["req2"] = "rp_start"

\* C4: a cycle never waits for the recording lock behind a capture in
\* flight, and none runs while the status shows a response sequence: such
\* a request was rejected.
C4_NoQueueing ==
    \A t \in Requests : pc[t] = "rp_start" => recording_lock = NONE

Predicting == {t \in CycleTasks : pc[t] = "pred_run"}

\* C30: at most one task is inside the inference section of predict (file
\* check, feature extraction, model call), and it holds the prediction lock.
C30_OneInference ==
    /\ Cardinality(Predicting) <= 1
    /\ \A t \in Predicting : prediction_lock = t

C30_Witness ==
    /\ pc["req1"] = "pred_run" /\ prediction_lock = "req1"
    /\ pc["req2"] = "rp_predict"

\* detection records of task t in the history
RecordsOf(t) == Cardinality({i \in 1..Len(detection_history) :
                                detection_history[i].audio_file = t})

\* C25: a cycle appends its detection record exactly once, after a capture
\* and a classification that both succeeded and before the decision on the
\* response sequence; a cycle whose capture or classification failed logs
\* the failure and returns with no record appended, and starts no sequence.
C25_RecordOncePerGoodCycle ==
    /\ [](\A t \in Requests :
            /\ pc[t] \in {"rp_decide", "rp_act", "rp_cleanup"} => RecordsOf(t) = 1
            /\ pc[t] \notin {"rp_decide", "rp_act", "rp_cleanup", "done"} => RecordsOf(t) = 0)
    /\ [][/\ \A t \in Requests :
              /\ (pc[t] \in {"rec_release_err", "pred_run"} /\ pc'[t] = "done")
                 => /\ RecordsOf(t)' = 0 /\ spc' = spc
                    /\ LastLog' \in {"record_and_predict_failed", "prediction_failed"}
              /\ (pc[t] = "rp_cleanup" /\ pc'[t] = "done") => RecordsOf(t)' = 1
          /\ detection_history' # detection_history
             => \E t \in Requests :
                   /\ pc[t] = "rp_record" /\ pc'[t] = "rp_decide" /\ result[t] # NO_RESULT
                   /\ detection_history' =
                         Append(detection_history, [result |-> result[t], audio_file |-> t])
          /\ Spawned => \E t \in Requests : pc[t] = "rp_act" /\ RecordsOf(t) = 1]_vars

C25_Witness ==
    /\ pc["req1"] = "done" /\ RecordsOf("req1") = 0 /\ LastLog = "prediction_failed"
    /\ pc["req2"] = "pred_run" /\ Len(detection_history) = 0

\* tasks between update_status(is_recording=True) and the finally clause
Recording == {t \in CycleTasks : pc[t] \in {"rec_stream", "rec_finally_ok", "rec_finally_err"}}

\* C22: is_recording is TRUE exactly while some record_audio call is between
\* its update_status(is_recording=True) and its finally clause, whichever
\* way the call ends; when no task is inside record_audio it is FALSE.
C22_RecordingFlag ==
    /\ status.is_recording <=> Recording # {}
    /\ Capturing = {} => ~status.is_recording

C22_Witness ==
    /\ pc["req1"] = "rec_release_err" /\ ~status.is_recording
    /\ pc["req2"] = "rp_start"

(* ---------------- properties: the response sequence (SpecSeq) ---------------- *)
AllOff == \A ch \in Pins : ChannelOff(ch)

\* C5: once the Event was set during the Stage 1 hold of a sequence, that
\* sequence starts no further sleep and no Stage 2: its next poll turns
\* channel 1 off and it returns.  ("missed" records a sleep, or the engage
\* of channel 2, begun after the Event was set during the hold.)
C5_CancelWithinOneTick == \A s \in Seqs : cancel_note[s] # "missed"

\* C37: a sequence that was running when stop_auto_detection set the Event
\* leaves at its next poll of the Event, whatever start_auto_detection
\* calls came in between: the poll after the signal never goes on to
\* another sleep or to the next stage (an exception ends it as well).
C37_CancelSurvivesRestart ==
    [][\A s \in Seqs :
         (/\ cancel_note[s] = "signalled"
          /\ spc[s] \in {"s1_hold", "wait"}
          /\ <<spc[s], si[s]>> # <<spc'[s], si'[s]>>)
         => spc'[s] \in {"s1_cancel", "finally_cancel", "exc_off1"}]_vars

\* C38: while a response sequence is active, the lines of the channels
\* change only in steps of the sequence itself: no manual request switches
\* a channel off that the sequence holds on, or engages the other one.
ActiveSeqs == {s \in Seqs : spc[s] \notin {NONE, "spawned"}}
C38_SequenceOwnsChannels ==
    [][(ActiveSeqs # {} /\ <<pump, valve>> # <<pump', valve'>>)
          => \E s \in ActiveSeqs : spc'[s] # spc[s]]_vars

\* C6: a sequence that returns because of a cancellation leaves both
\* channels off: pumps de-energized, valves closed.
C6_OffAfterCancel == \A s \in Seqs : spc[s] = "finally_cancel" => AllOff

\* C7: a sequence that returns because an engage call failed, or through
\* the except branch, leaves both channels off.
C7_OffAfterFailure == \A s \in Seqs : spc[s] \in {"finally_fail", "finally_exc"} => AllOff

\* C8: whenever no response-sequence thread is running, whichever way the
\* last one ended, snoring_response_active is FALSE; the step that ends a
\* thread leaves it FALSE.
C8_FlagClearedOnExit ==
    /\ [](RunningSeqs = {} => ~status.snoring_response_active)
    /\ [][\A s \in Seqs : (spc[s] # NONE /\ spc'[s] = NONE)
                           => ~status'.snoring_response_active]_vars

C8_Witness ==
    /\ RunningSeqs = {}
    /\ LastLog \in {"interrupted_pump1", "interrupted_waiting", "interrupted_pump2",
                    "step1_failed", "sequence_failed", "pump_control_error"}

\* C11: a stop_auto_detection call made while no loop thread runs changes
\* nothing another thread reads.  As long as no loop thread was ever
\* started, every stop call is such a call, so no response sequence has
\* found the Event set and returned early.
C11_StopWithoutLoopIsNoOp ==
    (\A l \in Loops : pc[l] = "unborn") =>
        \A s \in Seqs : spc[s] \notin {"s1_cancel", "s2_cancel", "finally_cancel"}

\* the stage a step of a sequence thread may come from
ComesFrom(after) ==
    IF after = "s1_hold" THEN {"s1_on", "s1_hold"}
    ELSE IF after = "s1_off" THEN {"s1_on", "s1_hold"}
    ELSE IF after = "wait" THEN {"s1_off", "wait"}
    ELSE IF after = "s2_on" THEN {"s1_off", "wait"}
    ELSE IF after = "s2_hold" THEN {"s2_on", "s2_hold"}
    ELSE {"s2_on", "s2_hold"}

\* C24: a sequence goes through control_pump(1, ON), the Stage 1 hold,
\* control_pump(1, OFF), the Interval, control_pump(2, ON), the Stage 2 hold
\* and control_pump(2, OFF) in this order; Stage 1 is followed only when its
\* ON call succeeded; channel 2 is engaged only after the whole Interval and
\* with channel 1 off; the two channels are never engaged together.
C24_SequenceOrdering ==
    [][\A s \in Seqs :
        /\ (spc'[s] # spc[s] /\ spc'[s] \in {"s1_hold", "s1_off", "wait", "s2_on", "s2_hold", "s2_off"})
           => spc[s] \in ComesFrom(spc'[s])
        /\ (spc[s] = "s1_on" /\ spc'[s] \in {"s1_hold", "s1_off"})
           => (pump'[1] = 1 /\ valve'[1] = 1)
        /\ (spc[s] = "wait" /\ spc'[s] = "s2_on") => si[s] = WAIT_BETWEEN_PUMPS - 1
        /\ (spc[s] = "s2_on" /\ spc'[s] # "s2_on") => ChannelOff(1)
        /\ ~(~ChannelOff(1) /\ ~ChannelOff(2))']_vars

(* ---------------- properties: start and stop (SpecLoop) ---------------- *)
AliveLoops == {l \in Loops : is_alive(l)}

\* C10: at most one supervisory loop thread is alive at any time.
C10_AtMostOneLoop == Cardinality(AliveLoops) <= 1

\* C40: once stop_auto_detection has set the Event, and unless a
\* start_auto_detection call follows, the system comes to rest: every loop
\* thread and every response sequence has ended, and the flags
\* auto_detect_enabled and snoring_response_active are FALSE; they stay
\* so until a start call or a detection that starts a sequence.
StartStates == {"start_check", "start_enable", "start_clear", "start_spawn"}
Cancelled == stop_event /\ \A c \in Callers : cpc[c] \notin StartStates
Quiescent ==
    /\ \A l \in Loops : ~is_alive(l)
    /\ \A s \in Seqs : spc[s] = NONE
    /\ ~status.auto_detect_enabled
    /\ ~status.snoring_response_active
C40_EventuallyQuiescent ==
    /\ Cancelled ~> (Quiescent \/ ~Cancelled)
    /\ [][Quiescent => (\/ Quiescent'
                        \/ Spawned
                        \/ \E c \in Callers : cpc[c] \in StartStates \/ cpc'[c] \in StartStates)]_vars

\* C29: stop_auto_detection sets the Event, joins the loop thread and only
\* then clears the enabled flag: a step that turns the flag from TRUE to
\* FALSE finds the Event set.
C29_StopOrder ==
    [][(status.auto_detect_enabled /\ ~status'.auto_detect_enabled) => stop_event]_vars

(* ---------------- properties: set_detection_delay (SpecDelay) ---------------- *)
\* C12: a set_detection_delay(m) call returns success and stores m exactly
\* when 1 <= m <= 60, adding one log entry; for every other m it returns
\* failure and leaves the stored delay and the activity log as they were.
C12_DelayValidated ==
    [][delay_calls' # delay_calls =>
        LET m == delay_ret'.minutes
        IN  /\ delay_ret'.success <=> (1 <= m /\ m <= 60)
            /\ delay_ret'.success =>
                  /\ status'.detection_delay = m
                  /\ activity_log' = Append(activity_log, "delay_set")
            /\ ~delay_ret'.success =>
                  /\ status'.detection_delay = status.detection_delay
                  /\ activity_log' = activity_log]_vars

C12_Witness ==
    /\ delay_calls = 3
    /\ delay_ret = [minutes |-> 61, success |-> FALSE]
    /\ status.detection_delay = 60
    /\ Len(activity_log) = 2

(* ---------------- properties: the store (SpecStore) ---------------- *)
Min(a, b) == IF a < b THEN a ELSE b

\* the last k of the n items appended so far, in append order
LastAppended(n, k, Item(_)) == [i \in 1..Min(n, k) |-> Item(n - Min(n, k) + i)]

\* C13: the detection history holds the most recent min(n, 50) of the n
\* records appended, the activity log the most recent min(n, 200) entries,
\* both in append order; so neither exceeds its capacity and an overflow
\* evicts exactly the oldest item.
C13_BoundedFifo ==
    /\ Len(detection_history) <= 50
    /\ Len(activity_log) <= 200
    /\ detection_history = LastAppended(records_added, 50, RecordNo)
    /\ activity_log = LastAppended(entries_added, 200, EntryNo)

C13_Witness ==
    /\ records_added = 51 /\ Len(detection_history) = 50
    /\ detection_history[1] = RecordNo(2)
    /\ entries_added = 201 /\ activity_log[1] = EntryNo(2)

(* ---------------- properties: model type (SpecModel) ---------------- *)
\* C14: the detected model type is improved for a rank-3 input shape and
\* legacy for every other shape, a rank-2 shape of any feature size included.
C14_ModelTypeSelection ==
    model_type # NONE =>
        model_type = IF input_shape.readable /\ Len(input_shape.dims) = 3
                     THEN "improved" ELSE "legacy"

\* C31: for every model type, the unrecognised one included, the array
\* handed to the model has exactly one dimension more than the extracted
\* features: a leading batch dimension of size 1.
C31_BatchDimension ==
    apc = "inferred" =>
        /\ Len(model_input.shape) = Len(features.shape) + 1
        /\ model_input.shape = <<1>> \o features.shape

(* ---------------- properties: the status under its lock (SpecStatus) ---------------- *)
\* C32: the status is never observed torn.  The dict a reader gets is the
\* status as it stood between two update_status calls, never one with only
\* some fields of a call stored; and what the reader then does to its dict
\* leaves the stored status as it was.
C32_StatusNeverTorn ==
    [][/\ (rpc = "idle" /\ rpc' = "copied") => snap' = committed
       /\ (rpc = "copied" /\ rpc' = "edited") => (status' = status /\ snap' # status')]_vars

\* a reader has changed its copy while an update_status call has stored
\* the first of its two fields
C32_Witness ==
    /\ rpc = "edited"
    /\ \E u \in Updaters : upc[u] = "locked" /\ Len(pending[u]) = 1 /\ status # committed
    /\ snap.recording = committed.is_recording

(* ---------------- properties: lock order (SpecLocks) ---------------- *)
HeldBy(t) == {lock \in LockNames : Owner(lock) = t}
\* every thread of S is blocked on a lock that a thread of S holds
Deadlocked(S) ==
    /\ S # {}
    /\ \A t \in S : lwant[t] # NONE /\ Owner(lwant[t]) \in S

\* C33: no set of threads waits in a cycle.  A thread holds at most one of
\* the controller, recording and prediction locks, and it takes no lock
\* while it holds the store lock.
C33_DeadlockFree ==
    /\ \A S \in SUBSET Lockers : ~Deadlocked(S)
    /\ \A t \in Lockers :
          /\ Cardinality(HeldBy(t) \cap OuterLocks) <= 1
          /\ "store" \in HeldBy(t) => lwant[t] = NONE

\* one thread holds the controller lock and is blocked on the store lock,
\* which a second thread holds, while a third is inside record_audio
C33_Witness ==
    /\ gpio_lock = "thr1" /\ lwant["thr1"] = "store"
    /\ store_lock = "thr2"
    /\ recording_lock = "thr3" /\ lwant["thr3"] = "store"

(* ---------------- properties: control_pump (SpecEngage) ---------------- *)
InCriticalSection == {e \in Engagers : epc[e] \in {"select", "write1", "write2", "status", "except"}}

\* C15: at every moment of every control_pump call and after it, a channel's
\* pump is energized only while its valve is open: ON opens the valve
\* first, OFF stops the pump first.
C15_ValveBeforePump == \A ch \in Pins : pump[ch] = 1 => valve[ch] = 1

C15_Witness ==
    \E e \in Engagers :
        /\ epc[e] = "write2" /\ ereq[e] = [ch |-> 2, action |-> "ON"]
        /\ valve[2] = 1 /\ pump[2] = 0

\* C16: control_pump calls do not interleave: at most one thread is between
\* the channel selection and the return of its call, and it holds the lock.
C16_EngageSerialized ==
    /\ Cardinality(InCriticalSection) <= 1
    /\ \A e \in InCriticalSection : gpio_lock = e

C16_Witness ==
    /\ epc["eng1"] = "write2" /\ gpio_lock = "eng1"
    /\ epc["eng2"] = "acquire"

\* C17: a control_pump call with a channel number other than 1 or 2 writes
\* no line, leaves pump_status alone and returns a failure.
C17_InvalidChannel ==
    [][\A e \in Engagers :
        (epc[e] \notin {"idle", "absent"} /\ epc'[e] # epc[e] /\ ereq[e].ch \notin {1, 2})
        => /\ pump' = pump /\ valve' = valve
           /\ status'.pump_status = status.pump_status
           /\ epc'[e] \notin {"write1", "write2", "status"}
           /\ epc'[e] = "idle" => eret'[e] \in {"invalid", "unavailable"}]_vars

C17_Witness ==
    /\ eret["eng1"] = "invalid" /\ ereq["eng1"].ch = 3
    /\ pump[1] = 1 /\ status.pump_status

\* C18: once _initialize_gpio has failed, gpio_initialized stays FALSE and
\* every control_pump call returns the "GPIO not available" failure from
\* its first test: the lock is never taken and no line is written.
C18_DegradedForever ==
    [][~gpio_initialized =>
        /\ ~gpio_initialized'
        /\ pump' = pump /\ valve' = valve /\ gpio_lock' = gpio_lock
        /\ \A e \in Engagers :
              (epc[e] = "check" /\ epc'[e] # "check")
              => (epc'[e] = "idle" /\ eret'[e] = "unavailable")]_vars

C18_Witness ==
    /\ ~gpio_initialized
    /\ eret["eng1"] = "unavailable" /\ ereq["eng1"] = [ch |-> 1, action |-> "ON"]
    /\ epc["eng2"] = "check"

C20_AllOffAfterShutdown == shutdowns >= 1 => AllOff

\* C35: in every state and for each channel, the pump is energized only
\* if the channel's valve is open, whatever control_pump, control_valve
\* and shutdown calls have run.
C35_PumpOnlyWithValve == \A ch \in Pins : ~(pump[ch] = 1 /\ valve[ch] = 0)

\* C39: whenever no control_pump call and no shutdown is in progress, the
\* status field pump_status tells whether the pump of channel 1 is
\* energized, after calls that succeeded or failed part-way and after
\* shutdown.
C39_PumpFlagTracksPump ==
    (/\ \A e \in Engagers : epc[e] \in {"idle", "absent"}
     /\ kpc \in {"absent", "idle", "exited"})
        => (status.pump_status <=> pump[1] = 1)

(* ---------------- properties: manual operations (SpecPillow) ---------------- *)
\* C21: an adjust_pillow call with a level outside {1, 2, 3} is rejected
\* before any control_pump call, and whichever way adjust_pillow or
\* deflate_pillow has returned, both channels are off.
C21_PillowLeavesChannelsOff ==
    /\ pret = "rejected" => (preq.level \notin {1, 2, 3} /\ AllOff)
    /\ ppc = "done" => AllOff

SeqHolds == {"s1_hold", "wait", "s2_hold"}

\* a response sequence that begins a second of a hold finds the Event clear
SequenceHoldsPoll ==
    \A s \in Seqs :
        (stop_event /\ spc[s] \in SeqHolds /\ <<spc[s], si[s]>>' # <<spc[s], si[s]>>)
        => spc'[s] \notin SeqHolds

\* so does the loop thread in its wait between cycles and in its back-off
LoopWaitsPoll ==
    \A l \in Loops :
        (stop_event /\ pc[l] \in {"loop_wait", "loop_backoff"} /\ wait_left[l] > 0
         /\ wait_left'[l] # wait_left[l])
        => pc'[l] \notin {"loop_wait", "loop_backoff"}

\* and so does a manual pillow operation in its timed holds
PillowHoldsPoll ==
    (stop_event /\ ppc \in PillowHolds /\ phold' # phold) => ppc' \notin PillowHolds

\* C23: every second of a long wait starts with a poll of the Event: a task
\* that finds the Event set leaves its wait and does not begin another second.
C23_WaitsPollCancellation ==
    [][SequenceHoldsPoll /\ LoopWaitsPoll /\ PillowHoldsPoll]_vars

(* ---------------- properties: the loop beside a request (SpecMix) ---------------- *)
\* C27: the loop starts a cycle only when the status it read shows neither
\* a recording nor a response sequence, and stays at the top of the loop
\* otherwise; so when a capture of the loop begins, the status shows no
\* active response sequence.
C27_LoopSkipsWhenBusy ==
    [][\A l \in Loops :
        /\ (pc[l] = "loop_top" /\ pc'[l] = "rp_start")
           => (~status.is_recording /\ ~status.snoring_response_active)
        /\ (pc[l] = "rp_start" /\ pc'[l] = "rec_locked")
           => ~status.snoring_response_active]_vars

(* ---------------- properties: the loop's wait (SpecWait) ---------------- *)
\* C26: after a cycle the loop waits the configured detection delay, as it
\* is when the wait begins, times the seconds of a minute if the cycle
\* returned a snoring label with a confidence above 85, and 5 seconds after
\* every other cycle.
C26_WaitAfterCycle ==
    [][\A l \in Loops :
        (pc[l] = "loop_after" /\ pc'[l] = "loop_wait")
        => wait_left'[l] =
              IF /\ result[l].class_name \in {"kron", "snoring", "Snoring", "SNORING"}
                 /\ result[l].confidence > 85
              THEN status.detection_delay * SECONDS_PER_MINUTE
              ELSE 5]_vars

(* ---------------- properties: the loop under failures (SpecSupervise) ---------------- *)
\* C28: a loop thread ends only at its while condition or in its wait, with
\* the Event set or the enabled flag cleared, and after a stop_auto_detection
\* call has acted.  A failed capture or classification is logged and followed
\* by the 5-second wait, an exception inside the iteration is logged and
\* followed by the 10-second sleep, and the thread is then back at the while
\* condition.
C28_LoopSurvivesFailures ==
    [][\A l \in Loops :
        /\ (pc[l] # "dead" /\ pc'[l] = "dead")
           => /\ stop_requested
              /\ stop_event \/ ~status.auto_detect_enabled
              /\ pc[l] \in {"loop_top", "loop_wait"}
        /\ (pc[l] \in {"rec_release_err", "pred_run"} /\ pc'[l] = "loop_after")
           => /\ LastLog' \in {"record_and_predict_failed", "prediction_failed"}
              /\ result'[l] = NO_RESULT
        /\ (pc[l] = "loop_after" /\ result[l] = NO_RESULT /\ pc'[l] # "loop_after")
           => \/ pc'[l] = "loop_wait" /\ wait_left'[l] = 5
              \/ pc'[l] = "loop_backoff"
        /\ (pc[l] # "loop_backoff" /\ pc'[l] = "loop_backoff")
           => (LastLog' = "auto_detection_error" /\ wait_left'[l] = ERROR_BACKOFF)
        /\ (pc[l] = "loop_backoff" /\ pc'[l] # "loop_backoff") => pc'[l] = "loop_top"]_vars

C28_Witness ==
    \E l \in Loops :
        /\ pc[l] = "loop_top" /\ cycles_left < MaxCycles /\ faults_left < MaxFaults
        /\ LastLog = "auto_detection_error"
        /\ ~stop_requested /\ detection_history = <<>>
====
